---- MODULE Spec2Model ----
(***************************************************************************)
(* Website Blocker (chrome extension): the background service worker's     *)
(* rule reconciliation (src/background.js, lines 135-351), the popup's     *)
(* block-list edits (src/unnamed/part_005) and the pomodoro timer          *)
(* (src/unnamed/part_004, lines 130-358).                                  *)
(*                                                                         *)
(* Every async function is cut at its awaits: one action per resumption.   *)
(* A handler in flight occupies a slot of hs; its locals are the slot's    *)
(* fields.  Domains are numbered 1..NumDomains in their sort order.  Time  *)
(* is counted in units of which the five-minute allowance spans            *)
(* FIVE_MINUTES.  chrome.storage is taken to be available: the catch       *)
(* branch of getDomainRuleId (hash fallback) is not part of these          *)
(* specifications.                                                         *)
(***************************************************************************)
EXTENDS Integers, Sequences, FiniteSets, TLC

\* ---------------------------------------------------------------- bounds
NumDomains == 2
MaxTime == 3
FIVE_MINUTES == 2
NumHandlers == 1
SliderMax == 1
MaxOverlaps == 1
RaceTicks == 2
MaxTokens == 3
NumPages == 2
MaxPending == 2
MaxEvents == 3

\* ------------------------------------------------------ program constants
WORK_DURATION == 1500
BREAK_DURATION == 300

Domains == 1..NumDomains
Slots == 1..NumHandlers
NoAlarm == -1
Volumes == 0..SliderMax

VARIABLES
    blockedSites,     \* chrome.storage.sync  blockedSites: sorted list
    temporaryAllows,  \* chrome.storage.local temporaryAllows: domain -> expiry
    domainIdMap,      \* chrome.storage.local domainIdMap: domain -> id
    nextRuleId,       \* chrome.storage.local nextRuleId
    rules,            \* declarativeNetRequest dynamic rules of the engine
    reblockAlarm,     \* fire time of the pending "reblock" alarm, or NoAlarm
    now,              \* Date.now()
    hs,               \* handlers of the service worker in flight
    returned          \* history: the id getDomainRuleId last returned per domain

blockVars == <<blockedSites, temporaryAllows, domainIdMap, nextRuleId, rules,
               reblockAlarm, now, hs, returned>>

VARIABLES
    pomodoroState,    \* chrome.storage.local pomodoroState: a record, << >> if unset
    tickAlarm,        \* TRUE while the recurring "pomodoroTick" alarm is scheduled
    tickQueued,       \* TRUE while a fired pomodoroTick event awaits its listener
    th,               \* timer handlers in flight: command, tick, volume, init
    elapsed,          \* history: ticks applied since the start from idle, -1 in idle
    interrupted,      \* history: a command was issued since that start
    overlaps,         \* history: handlers begun while another one was in flight
    pages             \* the blocked pages: open or not, events pending, display

timerVars == <<pomodoroState, tickAlarm, tickQueued, th, elapsed, interrupted,
               overlaps, pages>>

VARIABLES
    norm              \* a text typed into the popup and what is computed from it

VARIABLES
    blockStats,       \* chrome.storage.local blockStats: domain -> date -> count
    recorders,        \* recordBlockStats of each blocked page: where it is
    events            \* history: block events that occurred, per domain

statVars == <<blockStats, recorders, events>>

vars == <<blockVars, timerVars, norm, statVars>>

\* ------------------------------------------------------- plain operators
EmptyMap == << >>

Has(m, d) == d \in DOMAIN m

Put(m, d, v) == [x \in (DOMAIN m) \cup {d} |-> IF x = d THEN v ELSE m[x]]

Restrict(m, S) == [x \in S |-> m[x]]

SeqRange(q) == {q[i] : i \in 1..Len(q)}

Includes(q, d) == \E i \in 1..Len(q) : q[i] = d

RECURSIVE InsertSorted(_, _)
InsertSorted(q, d) ==
    IF q = << >> THEN <<d>>
    ELSE IF d < Head(q) THEN <<d>> \o q
    ELSE <<Head(q)>> \o InsertSorted(Tail(q), d)

\* Array.prototype.sort on a list of domains
RECURSIVE Sort(_)
Sort(q) == IF q = << >> THEN << >> ELSE InsertSorted(Sort(Tail(q)), Head(q))

\* ------------------------------------------------- getDomainRuleId (one call)
\* A call is [st, id, map, next, wrote]: st = "get" while the storage read is
\* pending, "set" while the storage write is pending, "done" once it returned.
NewCall == [st |-> "get", id |-> 0, map |-> EmptyMap, next |-> 0, wrote |-> FALSE]

\* variant: the lookup of the existing id is skipped
getDomainRuleIdRead_AlwaysAllocates(domain, map, next) ==
    [st |-> "set", id |-> next, map |-> Put(map, domain, next),
     next |-> next + 1, wrote |-> FALSE]

\* resumption after chrome.storage.local.get({domainIdMap, nextRuleId})
getDomainRuleIdRead(domain, map, next) ==
    IF Has(map, domain)
    THEN [st |-> "done", id |-> map[domain], map |-> EmptyMap, next |-> 0,
          wrote |-> FALSE]
    ELSE [st |-> "set", id |-> next, map |-> Put(map, domain, next),
          next |-> next + 1, wrote |-> FALSE]

\* resumption after chrome.storage.local.set({domainIdMap, nextRuleId})
getDomainRuleIdWritten(c) ==
    [st |-> "done", id |-> c.id, map |-> EmptyMap, next |-> 0, wrote |-> TRUE]

buildRule(domain, ruleId) == [id |-> ruleId, domain |-> domain]

\* ------------------------------------------------------------ the engine
RuleIds(rs) == {r.id : r \in rs}

\* chrome.declarativeNetRequest.updateDynamicRules({removeRuleIds, addRules}):
\* atomic; a rule id that is not unique makes the engine refuse the update.
UpdateAccepted(cur, removeRuleIds, addRules) ==
    LET kept == {r \in cur : r.id \notin removeRuleIds}
    IN  /\ \A i, j \in 1..Len(addRules) :
             i # j => addRules[i].id # addRules[j].id
        /\ \A i \in 1..Len(addRules) : addRules[i].id \notin RuleIds(kept)

\* variant: the engine adds the new rules and removes none
updateDynamicRules_RemovesNone(cur, removeRuleIds, addRules) ==
    IF UpdateAccepted(cur, removeRuleIds, addRules)
    THEN cur \cup SeqRange(addRules)
    ELSE cur

updateDynamicRules(cur, removeRuleIds, addRules) ==
    IF UpdateAccepted(cur, removeRuleIds, addRules)
    THEN {r \in cur : r.id \notin removeRuleIds} \cup SeqRange(addRules)
    ELSE cur

\* ------------------------------------------- getEffectiveBlockedSites pieces
\* variant: an entry expiring exactly now is kept
Pruned_KeepsExpiringNow(ta, t) == Restrict(ta, {d \in DOMAIN ta : ~(ta[d] < t)})

\* the loop "if (pruned[domain] <= now) delete pruned[domain]"
Pruned(ta, t) == Restrict(ta, {d \in DOMAIN ta : ~(ta[d] <= t)})

Allowed(ta, t, d) == Has(ta, d) /\ ta[d] > t

\* variant: the whole block list, whatever is allowed
EffectiveFilter_IgnoresAllows(sites, ta, t) == sites

\* blockedSites.filter((domain) => !(temporaryAllows[domain] > now))
EffectiveFilter(sites, ta, t) == SelectSeq(sites, LAMBDA d : ~Allowed(ta, t, d))

\* ------------------------------------------------ scheduleReblockAlarm piece
\* variant: an entry expiring exactly now still counts
Soonest_CountsExpiringNow(ta, t) ==
    LET live == {ta[d] : d \in {x \in DOMAIN ta : ta[x] >= t}}
    IN  IF live = {} THEN NoAlarm
        ELSE CHOOSE e \in live : \A f \in live : e <= f

\* the loop over Object.keys(temporaryAllows) keeping the least expiry > now
Soonest(ta, t) ==
    LET live == {ta[d] : d \in {x \in DOMAIN ta : ta[x] > t}}
    IN  IF live = {} THEN NoAlarm
        ELSE CHOOSE e \in live : \A f \in live : e <= f

\* ------------------------------------------------------------ domain text
\* a text is a sequence of one-character strings; the texts tried are made of
\* at most MaxTokens of these pieces
HTTP == <<"h", "t", "t", "p", ":", "/", "/">>

HTTPS == <<"h", "t", "t", "p", "s", ":", "/", "/">>

WWW == <<"w", "w", "w", ".">>

Tokens == {HTTP, HTTPS, WWW, <<"a">>, <<"c", "o">>, <<"A">>, <<"8">>, <<".">>,
           <<"-">>, <<":">>, <<"/">>, <<"?">>, <<"#">>, <<" ">>}

RECURSIVE Texts(_)
Texts(n) ==
    IF n = 0 THEN {<< >>}
    ELSE LET shorter == Texts(n - 1)
         IN  shorter \cup {t \o k : t \in shorter, k \in Tokens}

Inputs == Texts(MaxTokens)

Alnum == {"a", "c", "o", "h", "t", "p", "s", "w", "8"}

Letters == Alnum \ {"8"}

Seps == {"-", "."}

RECURSIVE trimStart(_)
trimStart(q) == IF q # << >> /\ Head(q) = " " THEN trimStart(Tail(q)) ELSE q

RECURSIVE trimEnd(_)
trimEnd(q) ==
    IF q # << >> /\ q[Len(q)] = " " THEN trimEnd(SubSeq(q, 1, Len(q) - 1)) ELSE q

\* String.prototype.trim
trim(q) == trimEnd(trimStart(q))

\* String.prototype.toLowerCase
toLowerCase(q) == [i \in 1..Len(q) |-> IF q[i] = "A" THEN "a" ELSE q[i]]

StartsWith(q, p) == Len(q) >= Len(p) /\ SubSeq(q, 1, Len(p)) = p

Drop(q, n) == SubSeq(q, n + 1, Len(q))

\* replace(/^https?:\/\//, "")
stripScheme(q) ==
    IF StartsWith(q, HTTPS) THEN Drop(q, Len(HTTPS))
    ELSE IF StartsWith(q, HTTP) THEN Drop(q, Len(HTTP))
    ELSE q

\* replace(/^www\./, "")
stripWww(q) == IF StartsWith(q, WWW) THEN Drop(q, Len(WWW)) ELSE q

\* split(c)[0]
RECURSIVE splitFirst(_, _)
splitFirst(q, c) ==
    IF q = << >> \/ Head(q) = c THEN << >>
    ELSE <<Head(q)>> \o splitFirst(Tail(q), c)

\* popup: normalizeDomain
normalizeDomain(raw) ==
    LET lowered == toLowerCase(trim(raw))
        noScheme == stripScheme(lowered)
        noWww == stripWww(noScheme)
        noPort == splitFirst(noWww, ":")
        noPath == splitFirst(noPort, "/")
        noQuery == splitFirst(noPath, "?")
    IN  splitFirst(noQuery, "#")

\* popup: isValidDomain, /^[a-z0-9]+([\-\.]{1}[a-z0-9]+)*\.[a-z]{2,}$/
isValidDomain(domain) ==
    /\ domain # << >>
    /\ \E i \in 2..Len(domain) :
          /\ domain[i] = "."
          /\ Len(domain) - i >= 2
          /\ \A j \in (i + 1)..Len(domain) : domain[j] \in Letters
          /\ domain[1] \in Alnum
          /\ domain[i - 1] \in Alnum
          /\ \A j \in 1..(i - 1) : domain[j] \in Alnum \cup Seps
          /\ \A j \in 1..(i - 2) : ~(domain[j] \in Seps /\ domain[j + 1] \in Seps)

\* background, onMessage allowFiveMinutes: the domain computed from message.site
allowFiveMinutesDomain(site) ==
    LET raw == toLowerCase(trim(site))
    IN  splitFirst(splitFirst(splitFirst(splitFirst(
            stripWww(stripScheme(raw)), ":"), "/"), "?"), "#")

\* background, onMessage allowFiveMinutes: the test that answers "invalid domain"
InvalidDomain(domain) ==
    \/ domain = << >>
    \/ \E i \in 1..Len(domain) : domain[i] = "/"
    \/ \E i \in 1..Len(domain) : domain[i] = " "

\* ---------------------------------------------------------- fallback hash
\* String.prototype.charCodeAt for the characters of Tokens
charCodeAt(c) ==
    CASE c = "a" -> 97  [] c = "c" -> 99  [] c = "o" -> 111 [] c = "h" -> 104
      [] c = "t" -> 116 [] c = "p" -> 112 [] c = "s" -> 115 [] c = "w" -> 119
      [] c = "A" -> 65  [] c = "8" -> 56  [] c = "." -> 46  [] c = "-" -> 45
      [] c = ":" -> 58  [] c = "/" -> 47  [] c = "?" -> 63  [] c = "#" -> 35
      [] c = " " -> 32

TwoTo16 == 65536

TwoTo30 == 1073741824

\* a 32-bit integer is kept as <<high 16 bits, low 16 bits>> of its two's
\* complement; (hash * 31 + code) | 0
hashStep(hash, code) ==
    LET lo == hash[2] * 31 + code
        hi == hash[1] * 31 + (lo \div TwoTo16)
    IN  <<hi % TwoTo16, lo % TwoTo16>>

\* the for loop over the characters of domain, from the value hash
RECURSIVE hashLoop(_, _)
hashLoop(domain, hash) ==
    IF domain = << >> THEN hash
    ELSE hashLoop(Tail(domain), hashStep(hash, charCodeAt(Head(domain))))

Negative(hash) == hash[1] >= TwoTo16 \div 2

\* the low 30 bits of the two's complement
Low30(hash) == (hash[1] % (TwoTo16 \div 4)) * TwoTo16 + hash[2]

\* variant: the remainder is taken of hash itself; JavaScript's % keeps the
\* sign of the dividend
fallbackId_NoAbs(hash) ==
    IF Negative(hash) THEN 1 - ((TwoTo30 - Low30(hash)) % TwoTo30)
    ELSE Low30(hash) + 1

\* (Math.abs(hash) % (1 << 30)) + 1
fallbackId(hash) ==
    IF Negative(hash) THEN ((TwoTo30 - Low30(hash)) % TwoTo30) + 1
    ELSE Low30(hash) + 1

\* --------------------------------------------------------------- handlers
IdleH == [kind |-> "none", pc |-> "idle", dom |-> 0, tab |-> FALSE,
          rdS |-> FALSE, rdL |-> FALSE, blk |-> << >>, ta |-> EmptyMap,
          pruned |-> EmptyMap, changed |-> FALSE, now0 |-> 0,
          effective |-> << >>, existingIds |-> {},
          calls |-> << >>, soonest |-> NoAlarm, resp |-> "none",
          expiry |-> NoAlarm, prev |-> NoAlarm, err |-> "none",
          navs |-> 0, called |-> FALSE]

Idle(s) == hs[s].pc = "idle"

AllIdle == \A s \in Slots : Idle(s)

Launch(s, kind, pc) == hs' = [hs EXCEPT ![s] = [IdleH EXCEPT !.kind = kind, !.pc = pc]]

InitBlocker ==
    /\ blockedSites = << >>
    /\ temporaryAllows = EmptyMap
    /\ domainIdMap = EmptyMap
    /\ nextRuleId = 1
    /\ rules = {}
    /\ reblockAlarm = NoAlarm
    /\ now = 0
    /\ hs = [s \in Slots |-> IdleH]
    /\ returned = EmptyMap

\* time passes
Advance ==
    /\ now < MaxTime
    /\ now' = now + 1
    /\ UNCHANGED <<norm, statVars, timerVars, blockedSites, temporaryAllows, domainIdMap, nextRuleId,
                   rules, reblockAlarm, hs, returned>>

\* variant: the domain is pushed without the includes test
addSiteList_NoIncludesTest(sites, domain) == Sort(Append(sites, domain))

\* popup addSite: the list it leaves stored (a domain already included: none written)
addSiteList(sites, domain) ==
    IF Includes(sites, domain) THEN sites ELSE Sort(Append(sites, domain))

\* popup removeSite: the list it stores, data.blockedSites.filter((d) => d !== domain)
removeSiteList(sites, domain) == SelectSeq(sites, LAMBDA d : d # domain)

\* popup addSite(domain); the write fires storage.onChanged in the worker
addSite(s, domain) ==
    /\ Idle(s)
    /\ ~Includes(blockedSites, domain)
    /\ blockedSites' = addSiteList(blockedSites, domain)
    /\ Launch(s, "change", "eff_get")
    /\ UNCHANGED <<norm, statVars, timerVars, temporaryAllows, domainIdMap, nextRuleId, rules,
                   reblockAlarm, now, returned>>

\* popup removeSite(domain); the write fires storage.onChanged in the worker
removeSite(s, domain) ==
    /\ Idle(s)
    /\ Includes(blockedSites, domain)
    /\ blockedSites' = removeSiteList(blockedSites, domain)
    /\ Launch(s, "change", "eff_get")
    /\ UNCHANGED <<norm, statVars, timerVars, temporaryAllows, domainIdMap, nextRuleId, rules,
                   reblockAlarm, now, returned>>

\* service worker start-up: getEffectiveBlockedSites().then(syncRules)
Startup(s) ==
    /\ Idle(s)
    /\ Launch(s, "startup", "eff_get")
    /\ UNCHANGED <<norm, statVars, timerVars, blockedSites, temporaryAllows, domainIdMap, nextRuleId,
                   rules, reblockAlarm, now, returned>>

\* variant: an install or update starts from an empty block list
Installed_ClearsList(s) ==
    /\ Idle(s)
    /\ blockedSites' = << >>
    /\ Launch(s, "installed", "eff_get")
    /\ UNCHANGED <<norm, statVars, timerVars, temporaryAllows, domainIdMap, nextRuleId,
                   rules, reblockAlarm, now, returned>>

\* chrome.runtime.onInstalled
Installed(s) ==
    /\ Idle(s)
    /\ Launch(s, "installed", "eff_get")
    /\ UNCHANGED <<norm, statVars, timerVars, blockedSites, temporaryAllows, domainIdMap, nextRuleId,
                   rules, reblockAlarm, now, returned>>

\* chrome.alarms.onAlarm with alarm.name = "reblock"
ReblockAlarmFires(s) ==
    /\ Idle(s)
    /\ reblockAlarm # NoAlarm
    /\ now >= reblockAlarm
    /\ reblockAlarm' = NoAlarm
    /\ Launch(s, "alarm", "eff_get")
    /\ UNCHANGED <<norm, statVars, timerVars, blockedSites, temporaryAllows, domainIdMap, nextRuleId,
                   rules, now, returned>>

\* onMessage {action: "allowFiveMinutes", site} with a valid domain
AllowFiveMinutes(s, domain, tab) ==
    /\ Idle(s)
    /\ hs' = [hs EXCEPT ![s] = [IdleH EXCEPT !.kind = "grant", !.pc = "g_get",
                                             !.dom = domain, !.tab = tab]]
    /\ UNCHANGED <<norm, statVars, timerVars, blockedSites, temporaryAllows, domainIdMap, nextRuleId,
                   rules, reblockAlarm, now, returned>>

\* variant: a domain that already has an entry keeps it
GrantGet_KeepsFirstExpiry(s) ==
    /\ hs[s].pc = "g_get"
    /\ hs' = [hs EXCEPT ![s].ta = IF Has(temporaryAllows, hs[s].dom)
                                  THEN temporaryAllows
                                  ELSE Put(temporaryAllows, hs[s].dom,
                                           now + FIVE_MINUTES),
                        ![s].expiry = now + FIVE_MINUTES,
                        ![s].prev = IF Has(temporaryAllows, hs[s].dom)
                                    THEN temporaryAllows[hs[s].dom] ELSE NoAlarm,
                        ![s].pc = "g_set"]
    /\ UNCHANGED <<norm, statVars, timerVars, blockedSites, temporaryAllows, domainIdMap, nextRuleId,
                   rules, reblockAlarm, now, returned>>

\* the message.site texts tried against the handler's domain test
SitesSent == Texts(1) \cup {<<"a", " ", "a">>}

\* variant: the entry is stored before the domain is tested
AllowFiveMinutesRejected_StoresFirst(s, site) ==
    /\ Idle(s)
    /\ InvalidDomain(allowFiveMinutesDomain(site))
    /\ temporaryAllows' = Put(temporaryAllows, 1, now + FIVE_MINUTES)
    /\ hs' = [hs EXCEPT ![s] = [IdleH EXCEPT !.kind = "grant", !.pc = "done",
                                             !.resp = "invalid"]]
    /\ UNCHANGED <<norm, statVars, timerVars, blockedSites, domainIdMap, nextRuleId,
                   rules, reblockAlarm, now, returned>>

\* onMessage {action: "allowFiveMinutes", site} whose domain fails the test:
\* sendResponse({ok: false, error: "invalid domain"})
AllowFiveMinutesRejected(s, site) ==
    /\ Idle(s)
    /\ InvalidDomain(allowFiveMinutesDomain(site))
    /\ hs' = [hs EXCEPT ![s] = [IdleH EXCEPT !.kind = "grant", !.pc = "done",
                                             !.resp = "invalid"]]
    /\ UNCHANGED <<norm, statVars, timerVars, blockedSites, temporaryAllows, domainIdMap,
                   nextRuleId, rules, reblockAlarm, now, returned>>

\* grant: storage.local.get resolved; expiry computed; storage.local.set issued
\* (prev: the entry the domain had in the map read, kept as history)
GrantGet(s) ==
    /\ hs[s].pc = "g_get"
    /\ hs' = [hs EXCEPT ![s].ta = Put(temporaryAllows, hs[s].dom, now + FIVE_MINUTES),
                        ![s].expiry = now + FIVE_MINUTES,
                        ![s].prev = IF Has(temporaryAllows, hs[s].dom)
                                    THEN temporaryAllows[hs[s].dom] ELSE NoAlarm,
                        ![s].pc = "g_set"]
    /\ UNCHANGED <<norm, statVars, timerVars, blockedSites, temporaryAllows, domainIdMap, nextRuleId,
                   rules, reblockAlarm, now, returned>>

\* grant: storage.local.set({temporaryAllows}) applied
GrantSet(s) ==
    /\ hs[s].pc = "g_set"
    /\ temporaryAllows' = hs[s].ta
    /\ hs' = [hs EXCEPT ![s].pc = "sched_get"]
    /\ UNCHANGED <<norm, statVars, timerVars, blockedSites, domainIdMap, nextRuleId, rules, reblockAlarm,
                   now, returned>>

\* scheduleReblockAlarm: storage read resolved, soonest computed, alarm call issued
scheduleReblockAlarmGet(s) ==
    /\ hs[s].pc = "sched_get"
    /\ hs' = [hs EXCEPT ![s].ta = temporaryAllows,
                        ![s].now0 = now,
                        ![s].soonest = Soonest(temporaryAllows, now),
                        ![s].pc = "sched_set"]
    /\ UNCHANGED <<norm, statVars, timerVars, blockedSites, temporaryAllows, domainIdMap, nextRuleId,
                   rules, reblockAlarm, now, returned>>

\* variant: with no unexpired entry the pending alarm is left as it is
scheduleReblockAlarmSet_NeverClears(s) ==
    /\ hs[s].pc = "sched_set"
    /\ reblockAlarm' = IF hs[s].soonest # NoAlarm THEN hs[s].soonest
                       ELSE reblockAlarm
    /\ hs' = [hs EXCEPT ![s].pc = IF hs[s].kind = "grant" THEN "eff_get" ELSE "done",
                        ![s].rdS = FALSE, ![s].rdL = FALSE]
    /\ UNCHANGED <<norm, statVars, timerVars, blockedSites, temporaryAllows, domainIdMap, nextRuleId,
                   rules, now, returned>>

\* scheduleReblockAlarm: chrome.alarms.create("reblock") or clear("reblock") applied
scheduleReblockAlarmSet(s) ==
    /\ hs[s].pc = "sched_set"
    /\ reblockAlarm' = hs[s].soonest
    /\ hs' = [hs EXCEPT ![s].pc = IF hs[s].kind = "grant" THEN "eff_get" ELSE "done",
                        ![s].rdS = FALSE, ![s].rdL = FALSE]
    /\ UNCHANGED <<norm, statVars, timerVars, blockedSites, temporaryAllows, domainIdMap, nextRuleId,
                   rules, now, returned>>

\* getEffectiveBlockedSites after both reads of its Promise.all resolved:
\* prune, then either issue the write of the pruned map or return
EffectiveAfterReads(h, sites, ta) ==
    LET pruned == Pruned(ta, now)
        changed == pruned # ta
    IN  IF changed
        THEN [h EXCEPT !.blk = sites, !.ta = ta, !.pruned = pruned,
                       !.changed = TRUE, !.now0 = now,
                       !.rdS = TRUE, !.rdL = TRUE, !.pc = "eff_set"]
        ELSE [h EXCEPT !.blk = sites, !.ta = ta, !.pruned = pruned,
                       !.changed = FALSE, !.now0 = now,
                       !.rdS = TRUE, !.rdL = TRUE,
                       !.effective = EffectiveFilter(sites, ta, now),
                       !.pc = "sync_get"]

\* chrome.storage.sync.get({blockedSites}) resolved
getEffectiveBlockedSitesSync(s) ==
    /\ hs[s].pc = "eff_get"
    /\ ~hs[s].rdS
    /\ hs' = [hs EXCEPT ![s] =
                 IF hs[s].rdL
                 THEN EffectiveAfterReads(hs[s], blockedSites, hs[s].ta)
                 ELSE [hs[s] EXCEPT !.blk = blockedSites, !.rdS = TRUE]]
    /\ UNCHANGED <<norm, statVars, timerVars, blockedSites, temporaryAllows, domainIdMap, nextRuleId,
                   rules, reblockAlarm, now, returned>>

\* chrome.storage.local.get({temporaryAllows}) resolved
getEffectiveBlockedSitesLocal(s) ==
    /\ hs[s].pc = "eff_get"
    /\ ~hs[s].rdL
    /\ hs' = [hs EXCEPT ![s] =
                 IF hs[s].rdS
                 THEN EffectiveAfterReads(hs[s], hs[s].blk, temporaryAllows)
                 ELSE [hs[s] EXCEPT !.ta = temporaryAllows, !.rdL = TRUE]]
    /\ UNCHANGED <<norm, statVars, timerVars, blockedSites, temporaryAllows, domainIdMap, nextRuleId,
                   rules, reblockAlarm, now, returned>>

\* variant: the write empties the map
getEffectiveBlockedSitesSet_DropsAll(s) ==
    /\ hs[s].pc = "eff_set"
    /\ temporaryAllows' = EmptyMap
    /\ hs' = [hs EXCEPT ![s].effective =
                            EffectiveFilter(hs[s].blk, hs[s].pruned, hs[s].now0),
                        ![s].pc = "sync_get"]
    /\ UNCHANGED <<norm, statVars, timerVars, blockedSites, domainIdMap, nextRuleId, rules, reblockAlarm,
                   now, returned>>

\* getEffectiveBlockedSites: the write of the pruned map applied; it returns
getEffectiveBlockedSitesSet(s) ==
    /\ hs[s].pc = "eff_set"
    /\ temporaryAllows' = hs[s].pruned
    /\ hs' = [hs EXCEPT ![s].effective =
                            EffectiveFilter(hs[s].blk, hs[s].pruned, hs[s].now0),
                        ![s].pc = "sync_get"]
    /\ UNCHANGED <<norm, statVars, timerVars, blockedSites, domainIdMap, nextRuleId, rules, reblockAlarm,
                   now, returned>>

\* syncRules: getDynamicRules resolved; one getDomainRuleId call per domain issued
syncRulesGet(s) ==
    /\ hs[s].pc = "sync_get"
    /\ hs' = [hs EXCEPT ![s].existingIds = RuleIds(rules),
                        ![s].calls = [i \in 1..Len(hs[s].effective) |-> NewCall],
                        ![s].pc = IF hs[s].effective = << >>
                                  THEN "sync_update" ELSE "sync_ids"]
    /\ UNCHANGED <<norm, statVars, timerVars, blockedSites, temporaryAllows, domainIdMap, nextRuleId,
                   rules, reblockAlarm, now, returned>>

AllReturned(calls) == \A i \in 1..Len(calls) : calls[i].st = "done"

AfterCall(h, i, c) ==
    LET calls == [h.calls EXCEPT ![i] = c]
    IN  [h EXCEPT !.calls = calls,
                  !.pc = IF AllReturned(calls) THEN "sync_update" ELSE "sync_ids"]

\* getDomainRuleId of the i-th domain: the storage read resolved
getDomainRuleIdGet(s, i) ==
    /\ hs[s].pc = "sync_ids"
    /\ i \in 1..Len(hs[s].calls)
    /\ hs[s].calls[i].st = "get"
    /\ LET c == getDomainRuleIdRead(hs[s].effective[i], domainIdMap, nextRuleId)
       IN  /\ hs' = [hs EXCEPT ![s] = AfterCall(hs[s], i, c)]
           /\ returned' = IF c.st = "done"
                          THEN Put(returned, hs[s].effective[i], c.id)
                          ELSE returned
    /\ UNCHANGED <<norm, statVars, timerVars, blockedSites, temporaryAllows, domainIdMap, nextRuleId,
                   rules, reblockAlarm, now>>

\* variant: the write stores the map and leaves nextRuleId as it was
getDomainRuleIdSet_KeepsNext(s, i) ==
    /\ hs[s].pc = "sync_ids"
    /\ i \in 1..Len(hs[s].calls)
    /\ hs[s].calls[i].st = "set"
    /\ domainIdMap' = hs[s].calls[i].map
    /\ nextRuleId' = nextRuleId
    /\ hs' = [hs EXCEPT ![s] = AfterCall(hs[s], i, getDomainRuleIdWritten(hs[s].calls[i]))]
    /\ returned' = Put(returned, hs[s].effective[i], hs[s].calls[i].id)
    /\ UNCHANGED <<norm, statVars, timerVars, blockedSites, temporaryAllows, rules, reblockAlarm, now>>

\* getDomainRuleId of the i-th domain: the storage write applied; it returns newId
getDomainRuleIdSet(s, i) ==
    /\ hs[s].pc = "sync_ids"
    /\ i \in 1..Len(hs[s].calls)
    /\ hs[s].calls[i].st = "set"
    /\ domainIdMap' = hs[s].calls[i].map
    /\ nextRuleId' = hs[s].calls[i].next
    /\ hs' = [hs EXCEPT ![s] = AfterCall(hs[s], i, getDomainRuleIdWritten(hs[s].calls[i]))]
    /\ returned' = Put(returned, hs[s].effective[i], hs[s].calls[i].id)
    /\ UNCHANGED <<norm, statVars, timerVars, blockedSites, temporaryAllows, rules, reblockAlarm, now>>

NewRules(h) == [i \in 1..Len(h.effective) |-> buildRule(h.effective[i], h.calls[i].id)]

\* where the handler goes on when syncRules has returned
AfterSync(h) ==
    CASE h.kind = "alarm" -> "sched_get"
      [] h.kind = "grant" -> "respond"
      [] OTHER -> "done"

\* syncRules: updateDynamicRules applied or refused (the refusal is caught and logged)
syncRulesUpdate(s) ==
    /\ hs[s].pc = "sync_update"
    /\ rules' = updateDynamicRules(rules, hs[s].existingIds, NewRules(hs[s]))
    /\ hs' = [hs EXCEPT ![s].pc = AfterSync(hs[s]),
                        ![s].err = IF UpdateAccepted(rules, hs[s].existingIds,
                                                     NewRules(hs[s]))
                                   THEN "none" ELSE "duplicate"]
    /\ UNCHANGED <<norm, statVars, timerVars, blockedSites, temporaryAllows, domainIdMap, nextRuleId,
                   reblockAlarm, now, returned>>

\* variant: the answer says navigated: false whatever the background did
GrantRespond_AnswersNotNavigated(s) ==
    /\ hs[s].pc = "respond"
    /\ hs' = [hs EXCEPT ![s].resp = "ok",
                        ![s].navs = IF hs[s].tab THEN @ + 1 ELSE @,
                        ![s].pc = "done"]
    /\ UNCHANGED <<norm, statVars, timerVars, blockedSites, temporaryAllows, domainIdMap, nextRuleId,
                   rules, reblockAlarm, now, returned>>

\* grant: chrome.tabs.update when the sender tab is known (navs counts the
\* navigations made for the request), then sendResponse({ok, navigated})
GrantRespond(s) ==
    /\ hs[s].pc = "respond"
    /\ hs' = [hs EXCEPT ![s].resp = IF hs[s].tab THEN "ok_navigated" ELSE "ok",
                        ![s].navs = IF hs[s].tab THEN @ + 1 ELSE @,
                        ![s].pc = "done"]
    /\ UNCHANGED <<norm, statVars, timerVars, blockedSites, temporaryAllows, domainIdMap, nextRuleId,
                   rules, reblockAlarm, now, returned>>

\* the handler's promise settles
Finish(s) ==
    /\ hs[s].pc = "done"
    /\ hs' = [hs EXCEPT ![s] = IdleH]
    /\ UNCHANGED <<norm, statVars, timerVars, blockedSites, temporaryAllows, domainIdMap, nextRuleId,
                   rules, reblockAlarm, now, returned>>

Trigger(s) ==
    \/ \E d \in Domains : addSite(s, d)
    \/ \E d \in Domains : removeSite(s, d)
    \/ \E d \in Domains, tab \in BOOLEAN : AllowFiveMinutes(s, d, tab)
    \/ \E site \in SitesSent : AllowFiveMinutesRejected(s, site)
    \/ ReblockAlarmFires(s)
    \/ Startup(s)
    \/ Installed(s)

Step(s) ==
    \/ GrantGet(s)
    \/ GrantSet(s)
    \/ scheduleReblockAlarmGet(s)
    \/ scheduleReblockAlarmSet(s)
    \/ getEffectiveBlockedSitesSync(s)
    \/ getEffectiveBlockedSitesLocal(s)
    \/ getEffectiveBlockedSitesSet(s)
    \/ syncRulesGet(s)
    \/ syncRulesUpdate(s)
    \/ GrantRespond(s)
    \/ Finish(s)

\* handlers run one after the other; inside syncRules the getDomainRuleId calls
\* of its Promise.all are in flight together
Next ==
    \/ Advance
    \/ \E s \in Slots : AllIdle /\ Trigger(s)
    \/ \E s \in Slots : Step(s)
    \/ \E s \in Slots, i \in Domains : getDomainRuleIdGet(s, i)
    \/ \E s \in Slots, i \in Domains : getDomainRuleIdSet(s, i)

\* ------------------------------------------------ sequential allocations
\* The same program when the storage serves the getDomainRuleId calls one
\* after the other: no call reads while another call's write is pending.
NoWritePending ==
    \A s \in Slots : \A i \in 1..Len(hs[s].calls) : hs[s].calls[i].st # "set"

NextAlloc ==
    \/ Advance
    \/ \E s \in Slots : AllIdle /\ Trigger(s)
    \/ \E s \in Slots : Step(s)
    \/ \E s \in Slots, i \in Domains : NoWritePending /\ getDomainRuleIdGet(s, i)
    \/ \E s \in Slots, i \in Domains : getDomainRuleIdSet(s, i)

\* ------------------------------------------------------- engine failures
\* syncRules: getDynamicRules rejects; the catch logs it and syncRules returns
syncRulesGetFails(s) ==
    /\ hs[s].pc = "sync_get"
    /\ hs' = [hs EXCEPT ![s].pc = AfterSync(hs[s]), ![s].err = "read"]
    /\ UNCHANGED <<norm, statVars, timerVars, blockedSites, temporaryAllows, domainIdMap,
                   nextRuleId, rules, reblockAlarm, now, returned>>

\* variant: the old rules are removed in a call of their own, which succeeds
\* before the call that adds the new rules is rejected
syncRulesUpdateRejected_RemovesFirst(s) ==
    /\ hs[s].pc = "sync_update"
    /\ rules' = {r \in rules : r.id \notin hs[s].existingIds}
    /\ hs' = [hs EXCEPT ![s].pc = AfterSync(hs[s]), ![s].err = "update"]
    /\ UNCHANGED <<norm, statVars, timerVars, blockedSites, temporaryAllows, domainIdMap,
                   nextRuleId, reblockAlarm, now, returned>>

\* syncRules: the engine rejects the one updateDynamicRules call (removeRuleIds
\* and addRules together); the catch logs it and syncRules returns
syncRulesUpdateRejected(s) ==
    /\ hs[s].pc = "sync_update"
    /\ rules' = rules
    /\ hs' = [hs EXCEPT ![s].pc = AfterSync(hs[s]), ![s].err = "update"]
    /\ UNCHANGED <<norm, statVars, timerVars, blockedSites, temporaryAllows, domainIdMap,
                   nextRuleId, reblockAlarm, now, returned>>

\* the program with an engine that may fail a read or reject an update
NextFail ==
    \/ Next
    \/ \E s \in Slots : syncRulesGetFails(s)
    \/ \E s \in Slots : syncRulesUpdateRejected(s)

\* ------------------------------------------------- the grant and its caller
\* blocked page, callback of sendMessage({action: "allowFiveMinutes"}): with
\* response.ok and not response.navigated the page navigates itself
fiveMoreResponse(s) ==
    /\ hs[s].kind = "grant"
    /\ hs[s].pc = "done"
    /\ ~hs[s].called
    /\ hs' = [hs EXCEPT ![s].called = TRUE,
                        ![s].navs = IF hs[s].resp = "ok" THEN @ + 1 ELSE @]
    /\ UNCHANGED <<norm, statVars, timerVars, blockedSites, temporaryAllows, domainIdMap,
                   nextRuleId, rules, reblockAlarm, now, returned>>

\* grant: a call awaited after the entry was stored rejects (a storage read or
\* write, the alarm call, chrome.tabs.update for a tab that is gone); the catch
\* answers {ok: false, error}
allowFiveMinutesCatch(s) ==
    /\ hs[s].kind = "grant"
    /\ \/ hs[s].pc \in {"sched_get", "sched_set", "eff_get", "eff_set"}
       \/ hs[s].pc = "respond" /\ hs[s].tab
    /\ hs' = [hs EXCEPT ![s].resp = "error", ![s].err = "grant", ![s].pc = "done"]
    /\ UNCHANGED <<norm, statVars, timerVars, blockedSites, temporaryAllows, domainIdMap,
                   nextRuleId, rules, reblockAlarm, now, returned>>

\* the program with the calling page, and calls of the grant that may reject
NextGrant ==
    \/ Next
    \/ \E s \in Slots : fiveMoreResponse(s)
    \/ \E s \in Slots : allowFiveMinutesCatch(s)

\* ------------------------------------------------------ one more domain
\* The same program with one more domain in use than Domains has.
DomainsWide == 1..(NumDomains + 1)

TriggerWide(s) ==
    \/ \E d \in DomainsWide : addSite(s, d)
    \/ \E d \in DomainsWide : removeSite(s, d)
    \/ \E d \in DomainsWide, tab \in BOOLEAN : AllowFiveMinutes(s, d, tab)
    \/ \E site \in SitesSent : AllowFiveMinutesRejected(s, site)
    \/ ReblockAlarmFires(s)
    \/ Startup(s)
    \/ Installed(s)

NextWide ==
    \/ Advance
    \/ \E s \in Slots : AllIdle /\ TriggerWide(s)
    \/ \E s \in Slots : Step(s)
    \/ \E s \in Slots, i \in DomainsWide : getDomainRuleIdGet(s, i)
    \/ \E s \in Slots, i \in DomainsWide : getDomainRuleIdSet(s, i)

\* ================================================================ timer
\* a pomodoroState record is a function from its property names; a property
\* that is undefined is outside its DOMAIN
Merge(a, b) ==
    [k \in (DOMAIN a) \cup (DOMAIN b) |-> IF k \in DOMAIN b THEN b[k] ELSE a[k]]

Max(a, b) == IF a >= b THEN a ELSE b

Mode(state) == IF "mode" \in DOMAIN state THEN state.mode ELSE "undefined"

Running(state) == Mode(state) \in {"work", "break"}

\* the record initTimerState stores when there is none
FreshState ==
    [mode |-> "idle", timeRemaining |-> WORK_DURATION,
     workDuration |-> WORK_DURATION, breakDuration |-> BREAK_DURATION,
     musicEnabled |-> TRUE, musicVolume |-> 50, lastUpdate |-> now]

\* getTimerState: data.pomodoroState || {mode: 'idle', ...}
getTimerState ==
    IF pomodoroState # EmptyMap THEN pomodoroState
    ELSE [mode |-> "idle", timeRemaining |-> WORK_DURATION,
          workDuration |-> WORK_DURATION, breakDuration |-> BREAK_DURATION,
          lastUpdate |-> now]

NoUpdate == EmptyMap

\* variant: start in mode work or break begins a new work session
startTimer_RestartsWhenRunning(state) ==
    CASE Mode(state) \in {"idle", "work", "break"} ->
             [mode |-> "work", timeRemaining |-> state.workDuration]
      [] Mode(state) = "work-paused" -> [mode |-> "work"]
      [] Mode(state) = "break-paused" -> [mode |-> "break"]
      [] OTHER -> NoUpdate

\* startTimer: the updates it passes to updateTimerState, if any
startTimerUpdates(state) ==
    CASE Mode(state) = "idle" ->
             [mode |-> "work", timeRemaining |-> state.workDuration]
      [] Mode(state) = "work-paused" -> [mode |-> "work"]
      [] Mode(state) = "break-paused" -> [mode |-> "break"]
      [] OTHER -> NoUpdate

\* variant: pausing also rewinds the session
pauseTimer_Rewinds(state) ==
    CASE Mode(state) = "work" ->
             [mode |-> "work-paused", timeRemaining |-> state.workDuration]
      [] Mode(state) = "break" ->
             [mode |-> "break-paused", timeRemaining |-> state.breakDuration]
      [] OTHER -> NoUpdate

\* pauseTimer: the updates it passes to updateTimerState, if any
pauseTimerUpdates(state) ==
    CASE Mode(state) = "work" -> [mode |-> "work-paused"]
      [] Mode(state) = "break" -> [mode |-> "break-paused"]
      [] OTHER -> NoUpdate

\* variant: reset keeps the remaining time
resetTimer_KeepsTime == [mode |-> "idle"]

\* resetTimer: the updates it passes to updateTimerState
resetTimerUpdates == [mode |-> "idle", timeRemaining |-> WORK_DURATION]

\* variant: the break is given the length of a work session
transitionMode_BreakOfWorkLength(currentState) ==
    CASE currentState.mode = "work" ->
             [mode |-> "break", timeRemaining |-> currentState.workDuration]
      [] currentState.mode = "break" ->
             [mode |-> "work", timeRemaining |-> currentState.workDuration]

\* transitionMode: the updates it passes to updateTimerState
transitionMode(currentState) ==
    CASE currentState.mode = "work" ->
             [mode |-> "break", timeRemaining |-> currentState.breakDuration]
      [] currentState.mode = "break" ->
             [mode |-> "work", timeRemaining |-> currentState.workDuration]

\* variant: every tick ends the session
handleTimerTickUpdates_AlwaysTransitions(state) == transitionMode(state)

\* handleTimerTick: the updates of a tick taken in mode work or break
handleTimerTickUpdates(state) ==
    LET newTime == Max(0, state.timeRemaining - 1)
    IN  IF newTime = 0 THEN transitionMode(state)
        ELSE [timeRemaining |-> newTime]

\* initTimerState: the record to store, NoUpdate if nothing is to be stored
initTimerStateWrite(stored) ==
    IF stored = EmptyMap THEN FreshState
    ELSE LET a == IF "musicEnabled" \in DOMAIN stored THEN stored
                  ELSE Merge(stored, [musicEnabled |-> TRUE])
             b == IF "musicVolume" \in DOMAIN a THEN a
                  ELSE Merge(a, [musicVolume |-> 50])
         IN  IF b = stored THEN NoUpdate ELSE b

\* ------------------------------------------------------- blocked pages
Pages == 1..NumPages

\* formatTime(seconds): minutes and seconds, each padded to two digits
formatTime(seconds) == <<seconds \div 60, seconds % 60>>

\* updateTimerDisplay, the switch on mode: timerModeEl.textContent
modeText(mode) ==
    CASE mode = "work" -> "Work Session"
      [] mode = "break" -> "Break Time"
      [] mode = "work-paused" -> "Work Session (Paused)"
      [] mode = "break-paused" -> "Break Time (Paused)"
      [] OTHER -> "Ready to Focus"

\* updateTimerDisplay({pomodoroState: stored}): what the page shows afterwards
updateTimerDisplay(stored) ==
    IF stored = EmptyMap
    THEN [mode |-> "Ready to Focus", time |-> formatTime(WORK_DURATION)]
    ELSE [mode |-> modeText(stored.mode), time |-> formatTime(stored.timeRemaining)]

NoDisplay == [mode |-> "", time |-> << >>]

\* a page that is not open; last is the value its display was last computed from
ClosedPage == [open |-> FALSE, queue |-> << >>, shown |-> NoDisplay,
               last |-> EmptyMap, notified |-> FALSE]

\* a write of pomodoroState: chrome.storage.onChanged is dispatched to every
\* open page, in the order of the writes; MaxPending events wait per page at most
onChanged(newValue) ==
    /\ \A p \in Pages : Len(pages[p].queue) < MaxPending
    /\ pages' = [p \in Pages |->
                    IF pages[p].open
                    THEN [pages[p] EXCEPT !.queue =
                              Append(@, [init |-> FALSE, value |-> newValue])]
                    ELSE pages[p]]

Roles == {"cmd", "tick", "vol", "init"}

IdleT == [pc |-> "idle", op |-> "none", pre |-> EmptyMap, state |-> EmptyMap,
          updates |-> EmptyMap, newState |-> EmptyMap]

TimerIdle == \A k \in Roles : th[k].pc = "idle"

\* a handler begins: it counts as an overlap if another one is in flight
Overlap == overlaps' = IF TimerIdle THEN overlaps ELSE overlaps + 1

Cycle == WORK_DURATION + BREAK_DURATION

InitTimer ==
    /\ pomodoroState = EmptyMap
    /\ tickAlarm = FALSE
    /\ tickQueued = FALSE
    /\ th = [k \in Roles |-> IF k = "init"
                             THEN [IdleT EXCEPT !.pc = "get", !.op = "init"]
                             ELSE IdleT]
    /\ elapsed = -1
    /\ interrupted = FALSE
    /\ overlaps = 0
    /\ pages = [p \in Pages |-> ClosedPage]

\* ------------------------------------------------------ block statistics
\* the day of the block events, as a day number, and the cutoff 30 days before
Today == 30

Cutoff == Today - 30

\* the count stored for domain d on date t, 0 if there is none
Count(stats, d, t) ==
    IF Has(stats, d) /\ Has(stats[d], t) THEN stats[d][t] ELSE 0

\* stats[domain][today] = (stats[domain][today] || 0) + 1
Incremented(stats, d) ==
    Put(stats, d, Put(IF Has(stats, d) THEN stats[d] ELSE EmptyMap,
                      Today, Count(stats, d, Today) + 1))

\* the loop that deletes dates before the cutoff, and domains left without a date
PrunedStats(stats) ==
    LET kept(d) == Restrict(stats[d], {t \in DOMAIN stats[d] : ~(t < Cutoff)})
    IN  [d \in {x \in DOMAIN stats : kept(x) # EmptyMap} |-> kept(d)]

IdleR == [pc |-> "idle", dom |-> 0, stats |-> EmptyMap]

InitStats ==
    /\ blockStats = EmptyMap
    /\ recorders = [p \in Pages |-> IdleR]
    /\ events = [d \in Domains |-> 0]

\* a request for domain is redirected to the blocked page p, which calls
\* recordBlockStats(site): chrome.storage.local.get is issued
recordBlockStats(p, domain) ==
    /\ recorders[p].pc = "idle"
    /\ events[domain] < MaxEvents
    /\ events' = [events EXCEPT ![domain] = @ + 1]
    /\ recorders' = [recorders EXCEPT ![p] = [IdleR EXCEPT !.pc = "get", !.dom = domain]]
    /\ UNCHANGED <<blockVars, timerVars, norm, blockStats>>

\* recordBlockStats: the read resolved; the count is raised, old dates are
\* deleted and chrome.storage.local.set is issued
recordBlockStatsGet(p) ==
    /\ recorders[p].pc = "get"
    /\ recorders' = [recorders EXCEPT
                        ![p].stats = PrunedStats(Incremented(blockStats, recorders[p].dom)),
                        ![p].pc = "set"]
    /\ UNCHANGED <<blockVars, timerVars, norm, blockStats, events>>

\* recordBlockStats: the write applied
recordBlockStatsSet(p) ==
    /\ recorders[p].pc = "set"
    /\ blockStats' = recorders[p].stats
    /\ recorders' = [recorders EXCEPT ![p] = IdleR]
    /\ UNCHANGED <<blockVars, timerVars, norm, events>>

NextStats ==
    \/ \E p \in Pages, d \in Domains : recordBlockStats(p, d)
    \/ \E p \in Pages : recordBlockStatsGet(p)
    \/ \E p \in Pages : recordBlockStatsSet(p)

\* no text typed
NoText == [raw |-> << >>, submitted |-> FALSE, domain |-> << >>, valid |-> FALSE,
           sent |-> FALSE, grant |-> << >>, clicked |-> FALSE, key |-> << >>,
           hash |-> <<0, 0>>, ids |-> << >>]

Init == InitBlocker /\ InitTimer /\ InitStats /\ norm = NoText

\* initTimerState: the storage read resolved
initTimerStateGet ==
    /\ th["init"].pc = "get"
    /\ LET w == initTimerStateWrite(pomodoroState)
       IN  th' = [th EXCEPT !["init"] =
                     IF w = NoUpdate THEN IdleT
                     ELSE [@ EXCEPT !.pc = "set", !.newState = w]]
    /\ UNCHANGED <<norm, statVars, pages, blockVars, overlaps, pomodoroState, tickAlarm, tickQueued, elapsed,
                   interrupted>>

\* initTimerState: the storage write applied
initTimerStateSet ==
    /\ th["init"].pc = "set"
    /\ pomodoroState' = th["init"].newState
    /\ onChanged(th["init"].newState)
    /\ th' = [th EXCEPT !["init"] = IdleT]
    /\ UNCHANGED <<norm, statVars, blockVars, overlaps, tickAlarm, tickQueued, elapsed, interrupted>>

\* the service worker starts again: initTimerState() is called
TimerStartup ==
    /\ th["init"].pc = "idle"
    /\ th' = [th EXCEPT !["init"] = [IdleT EXCEPT !.pc = "get", !.op = "init"]]
    /\ Overlap
    /\ UNCHANGED <<norm, statVars, pages, blockVars, pomodoroState, tickAlarm, tickQueued, elapsed,
                   interrupted>>

\* handleTimerCommand: message {action: start | pause | reset}
handleTimerCommand(action) ==
    /\ th["cmd"].pc = "idle"
    /\ th' = [th EXCEPT !["cmd"] =
                 [IdleT EXCEPT !.pc = IF action = "reset" THEN "clear" ELSE "get",
                               !.op = action, !.pre = pomodoroState]]
    /\ interrupted' = (interrupted \/ elapsed >= 0)
    /\ Overlap
    /\ UNCHANGED <<norm, statVars, pages, blockVars, pomodoroState, tickAlarm, tickQueued, elapsed>>

\* startTimer / pauseTimer: getTimerState resolved
CommandGet ==
    /\ th["cmd"].pc = "get"
    /\ LET state == getTimerState
           u == IF th["cmd"].op = "start" THEN startTimerUpdates(state)
                ELSE pauseTimerUpdates(state)
       IN  th' = [th EXCEPT !["cmd"].state = state,
                            !["cmd"].updates = u,
                            !["cmd"].pc = IF u = NoUpdate THEN "alarm" ELSE "upd_get"]
    /\ UNCHANGED <<norm, statVars, pages, blockVars, overlaps, pomodoroState, tickAlarm, tickQueued, elapsed,
                   interrupted>>

\* resetTimer: chrome.alarms.clear applied, updateTimerState called
resetTimerClear ==
    /\ th["cmd"].pc = "clear"
    /\ tickAlarm' = FALSE
    /\ th' = [th EXCEPT !["cmd"].updates = resetTimerUpdates,
                        !["cmd"].pc = "upd_get"]
    /\ UNCHANGED <<norm, statVars, pages, blockVars, overlaps, pomodoroState, tickQueued, elapsed, interrupted>>

\* updateTimerState: getTimerState resolved, the write is issued
updateTimerStateGet(k) ==
    /\ th[k].pc = "upd_get"
    /\ th' = [th EXCEPT ![k].newState =
                            Merge(Merge(getTimerState, th[k].updates),
                                  [lastUpdate |-> now]),
                        ![k].pc = "upd_set"]
    /\ UNCHANGED <<norm, statVars, pages, blockVars, overlaps, pomodoroState, tickAlarm, tickQueued, elapsed,
                   interrupted>>

\* variant: a write that begins a break also removes the rules of the engine
updateTimerStateSet_BreakUnblocks(k) ==
    /\ th[k].pc = "upd_set"
    /\ pomodoroState' = th[k].newState
    /\ onChanged(th[k].newState)
    /\ rules' = IF Mode(th[k].newState) = "break" THEN {} ELSE rules
    /\ th' = [th EXCEPT ![k].pc = IF k = "cmd" /\ th[k].op # "reset"
                                  THEN "alarm" ELSE "done"]
    /\ elapsed' = CASE k = "tick" /\ elapsed >= 0 -> (elapsed + 1) % Cycle
                    [] k = "cmd" /\ th[k].op = "reset" -> -1
                    [] k = "cmd" /\ th[k].op = "start"
                                 /\ Mode(th[k].state) = "idle" -> 0
                    [] OTHER -> elapsed
    /\ interrupted' = IF k = "cmd" /\ (\/ th[k].op = "reset"
                                       \/ (/\ th[k].op = "start"
                                           /\ Mode(th[k].state) = "idle"))
                      THEN FALSE ELSE interrupted
    /\ UNCHANGED <<norm, statVars, blockedSites, temporaryAllows, domainIdMap, nextRuleId,
                   reblockAlarm, now, hs, returned, overlaps, tickAlarm,
                   tickQueued>>

\* updateTimerState: the write applied
updateTimerStateSet(k) ==
    /\ th[k].pc = "upd_set"
    /\ pomodoroState' = th[k].newState
    /\ onChanged(th[k].newState)
    /\ th' = [th EXCEPT ![k].pc = IF k = "cmd" /\ th[k].op # "reset"
                                  THEN "alarm" ELSE "done"]
    /\ elapsed' = CASE k = "tick" /\ elapsed >= 0 -> (elapsed + 1) % Cycle
                    [] k = "cmd" /\ th[k].op = "reset" -> -1
                    [] k = "cmd" /\ th[k].op = "start"
                                 /\ Mode(th[k].state) = "idle" -> 0
                    [] OTHER -> elapsed
    /\ interrupted' = IF k = "cmd" /\ (\/ th[k].op = "reset"
                                       \/ (/\ th[k].op = "start"
                                           /\ Mode(th[k].state) = "idle"))
                      THEN FALSE ELSE interrupted
    /\ UNCHANGED <<norm, statVars, blockVars, overlaps, tickAlarm, tickQueued>>

\* startTimer: chrome.alarms.create applied; pauseTimer: chrome.alarms.clear applied
CommandAlarm ==
    /\ th["cmd"].pc = "alarm"
    /\ tickAlarm' = (th["cmd"].op = "start")
    /\ th' = [th EXCEPT !["cmd"].pc = "done"]
    /\ UNCHANGED <<norm, statVars, pages, blockVars, overlaps, pomodoroState, tickQueued, elapsed, interrupted>>

\* handleTimerCommand: sendResponse({success: true})
CommandRespond ==
    /\ th["cmd"].pc = "done"
    /\ th' = [th EXCEPT !["cmd"] = IdleT]
    /\ UNCHANGED <<norm, statVars, pages, blockVars, overlaps, pomodoroState, tickAlarm, tickQueued, elapsed,
                   interrupted>>

\* the recurring pomodoroTick alarm fires: an onAlarm event is dispatched
TickAlarmFires ==
    /\ tickAlarm
    /\ ~tickQueued
    /\ tickQueued' = TRUE
    /\ UNCHANGED <<norm, statVars, pages, blockVars, overlaps, pomodoroState, tickAlarm, th, elapsed, interrupted>>

\* handleTimerTick is invoked with alarm.name = 'pomodoroTick'
handleTimerTick ==
    /\ tickQueued
    /\ th["tick"].pc = "idle"
    /\ tickQueued' = FALSE
    /\ th' = [th EXCEPT !["tick"] = [IdleT EXCEPT !.pc = "get", !.op = "tick",
                                                  !.pre = pomodoroState]]
    /\ Overlap
    /\ UNCHANGED <<norm, statVars, pages, blockVars, pomodoroState, tickAlarm, elapsed, interrupted>>

\* handleTimerTick: getTimerState resolved
handleTimerTickGet ==
    /\ th["tick"].pc = "get"
    /\ LET state == getTimerState
       IN  th' = [th EXCEPT !["tick"] =
                     IF ~Running(state)
                     THEN [@ EXCEPT !.state = state, !.pc = "clear"]
                     ELSE [@ EXCEPT !.state = state,
                                    !.updates = handleTimerTickUpdates(state),
                                    !.pc = "upd_get"]]
    /\ UNCHANGED <<norm, statVars, pages, blockVars, overlaps, pomodoroState, tickAlarm, tickQueued, elapsed,
                   interrupted>>

\* variant: the stale tick returns without cancelling the alarm
handleTimerTickClear_KeepsAlarm ==
    /\ th["tick"].pc = "clear"
    /\ th' = [th EXCEPT !["tick"] = IdleT]
    /\ UNCHANGED <<norm, statVars, pages, blockVars, overlaps, pomodoroState, tickAlarm, tickQueued,
                   elapsed, interrupted>>

\* handleTimerTick, timer not running: chrome.alarms.clear applied
handleTimerTickClear ==
    /\ th["tick"].pc = "clear"
    /\ tickAlarm' = FALSE
    /\ th' = [th EXCEPT !["tick"] = IdleT]
    /\ UNCHANGED <<norm, statVars, pages, blockVars, overlaps, pomodoroState, tickQueued, elapsed, interrupted>>

\* handleTimerTick returns
handleTimerTickDone ==
    /\ th["tick"].pc = "done"
    /\ th' = [th EXCEPT !["tick"] = IdleT]
    /\ UNCHANGED <<norm, statVars, pages, blockVars, overlaps, pomodoroState, tickAlarm, tickQueued, elapsed,
                   interrupted>>

\* blocked page, handleVolumeChange: the slider moved to volume
handleVolumeChange(volume) ==
    /\ th["vol"].pc = "idle"
    /\ th' = [th EXCEPT !["vol"] = [IdleT EXCEPT !.pc = "get", !.op = "volume",
                                                 !.pre = pomodoroState,
                                                 !.updates = [musicVolume |-> volume]]]
    /\ Overlap
    /\ UNCHANGED <<norm, statVars, pages, blockVars, pomodoroState, tickAlarm, tickQueued, elapsed,
                   interrupted>>

\* handleVolumeChange: the storage read resolved; state.musicVolume assigned
handleVolumeChangeGet ==
    /\ th["vol"].pc = "get"
    /\ th' = [th EXCEPT !["vol"].newState = Merge(pomodoroState, th["vol"].updates),
                        !["vol"].pc = "set"]
    /\ UNCHANGED <<norm, statVars, pages, blockVars, overlaps, pomodoroState, tickAlarm, tickQueued, elapsed,
                   interrupted>>

\* handleVolumeChange: the storage write applied
handleVolumeChangeSet ==
    /\ th["vol"].pc = "set"
    /\ pomodoroState' = th["vol"].newState
    /\ onChanged(th["vol"].newState)
    /\ th' = [th EXCEPT !["vol"] = IdleT]
    /\ UNCHANGED <<norm, statVars, blockVars, overlaps, tickAlarm, tickQueued, elapsed, interrupted>>

TimerTrigger ==
    \/ \E action \in {"start", "pause", "reset"} : handleTimerCommand(action)
    \/ handleTimerTick
    \/ \E volume \in Volumes : handleVolumeChange(volume)
    \/ TimerStartup

\* timer handlers run one after the other
NextTimer ==
    \/ TimerIdle /\ TimerTrigger
    \/ TickAlarmFires
    \/ initTimerStateGet
    \/ initTimerStateSet
    \/ CommandGet
    \/ resetTimerClear
    \/ \E k \in {"cmd", "tick"} : updateTimerStateGet(k)
    \/ \E k \in {"cmd", "tick"} : updateTimerStateSet(k)
    \/ CommandAlarm
    \/ CommandRespond
    \/ handleTimerTickGet
    \/ handleTimerTickClear
    \/ handleTimerTickDone
    \/ handleVolumeChangeGet
    \/ handleVolumeChangeSet

\* timeRemaining within RaceTicks of the start or the end of a session
NearBoundary(t) ==
    \E b \in {0, BREAK_DURATION, WORK_DURATION} :
        b - RaceTicks < t /\ t <= b + RaceTicks

\* timer handlers begin while others are in flight: MaxOverlaps times at most,
\* once the first initTimerState has stored the record, and with the stored
\* timeRemaining near a session boundary
NextTimerRace ==
    \/ /\ \/ TimerIdle
          \/ /\ overlaps < MaxOverlaps
             /\ pomodoroState # EmptyMap
             /\ NearBoundary(pomodoroState.timeRemaining)
       /\ TimerTrigger
    \/ TickAlarmFires
    \/ initTimerStateGet
    \/ initTimerStateSet
    \/ CommandGet
    \/ resetTimerClear
    \/ \E k \in {"cmd", "tick"} : updateTimerStateGet(k)
    \/ \E k \in {"cmd", "tick"} : updateTimerStateSet(k)
    \/ CommandAlarm
    \/ CommandRespond
    \/ handleTimerTickGet
    \/ handleTimerTickClear
    \/ handleTimerTickDone
    \/ handleVolumeChangeGet
    \/ handleVolumeChangeSet

\* ===================================================== handlers overlapping
\* One handler per slot, NumHandlers + 1 of them, begun at any moment and run to
\* their end in every interleaving of their steps.
SlotsRace == 1..(NumHandlers + 1)

\* the blocker before any event, or as addSite(1), addSite(2) and a grant for 1
\* at time 0 leave it FIVE_MINUTES later: the entry of 1 has expired and the
\* reblock alarm is due
InitBlockerRace ==
    /\ hs = [s \in SlotsRace |-> IdleH]
    /\ \/ /\ blockedSites = << >>
          /\ temporaryAllows = EmptyMap
          /\ domainIdMap = EmptyMap
          /\ nextRuleId = 1
          /\ rules = {}
          /\ reblockAlarm = NoAlarm
          /\ now = 0
          /\ returned = EmptyMap
       \/ /\ blockedSites = <<1, 2>>
          /\ temporaryAllows = (1 :> FIVE_MINUTES)
          /\ domainIdMap = (1 :> 1) @@ (2 :> 2)
          /\ nextRuleId = 3
          /\ rules = {buildRule(2, 2)}
          /\ reblockAlarm = FIVE_MINUTES
          /\ now = FIVE_MINUTES
          /\ returned = (1 :> 1) @@ (2 :> 2)

NextRace ==
    \/ Advance
    \/ \E s \in SlotsRace : Trigger(s)
    \/ \E s \in SlotsRace : GrantGet(s)
    \/ \E s \in SlotsRace : GrantSet(s)
    \/ \E s \in SlotsRace : scheduleReblockAlarmGet(s)
    \/ \E s \in SlotsRace : scheduleReblockAlarmSet(s)
    \/ \E s \in SlotsRace : getEffectiveBlockedSitesSync(s)
    \/ \E s \in SlotsRace : getEffectiveBlockedSitesLocal(s)
    \/ \E s \in SlotsRace : getEffectiveBlockedSitesSet(s)
    \/ \E s \in SlotsRace : syncRulesGet(s)
    \/ \E s \in SlotsRace : syncRulesUpdate(s)
    \/ \E s \in SlotsRace : GrantRespond(s)
    \/ \E s \in SlotsRace, i \in Domains : getDomainRuleIdGet(s, i)
    \/ \E s \in SlotsRace, i \in Domains : getDomainRuleIdSet(s, i)

\* ========================================================== blocked pages
\* a blocked page loads: the storage listener is registered and initTimer()
\* issues its storage read, which is answered in order with the change events
openPage(p) ==
    /\ ~pages[p].open
    /\ pages' = [pages EXCEPT ![p] =
                    [ClosedPage EXCEPT !.open = TRUE,
                                       !.queue = <<[init |-> TRUE, value |-> pomodoroState]>>]]
    /\ UNCHANGED <<norm, statVars, blockVars, pomodoroState, tickAlarm, tickQueued, th, elapsed,
                   interrupted, overlaps>>

\* initTimer: the storage read resolved, updateTimerDisplay(data)
initTimer(p) ==
    /\ pages[p].open
    /\ pages[p].queue # << >>
    /\ Head(pages[p].queue).init
    /\ pages' = [pages EXCEPT ![p].queue = Tail(@),
                              ![p].shown = updateTimerDisplay(Head(pages[p].queue).value),
                              ![p].last = Head(pages[p].queue).value]
    /\ UNCHANGED <<norm, statVars, blockVars, pomodoroState, tickAlarm, tickQueued, th, elapsed,
                   interrupted, overlaps>>

\* variant: the listener redraws only when the mode has changed
storageOnChanged_ModeOnly(p) ==
    /\ pages[p].open
    /\ pages[p].queue # << >>
    /\ ~Head(pages[p].queue).init
    /\ pages' = [pages EXCEPT ![p].queue = Tail(@),
                              ![p].shown =
                                  IF Mode(Head(pages[p].queue).value) = Mode(pages[p].last)
                                  THEN @
                                  ELSE updateTimerDisplay(Head(pages[p].queue).value),
                              ![p].last = Head(pages[p].queue).value,
                              ![p].notified = TRUE]
    /\ UNCHANGED <<norm, statVars, blockVars, pomodoroState, tickAlarm, tickQueued, th, elapsed,
                   interrupted, overlaps>>

\* the page's chrome.storage.onChanged listener runs for area local and
\* changes.pomodoroState: updateTimerDisplay({pomodoroState: newValue})
storageOnChanged(p) ==
    /\ pages[p].open
    /\ pages[p].queue # << >>
    /\ ~Head(pages[p].queue).init
    /\ pages' = [pages EXCEPT ![p].queue = Tail(@),
                              ![p].shown = updateTimerDisplay(Head(pages[p].queue).value),
                              ![p].last = Head(pages[p].queue).value,
                              ![p].notified = TRUE]
    /\ UNCHANGED <<norm, statVars, blockVars, pomodoroState, tickAlarm, tickQueued, th, elapsed,
                   interrupted, overlaps>>

\* the tab is closed or leaves the blocked page
closePage(p) ==
    /\ pages[p].open
    /\ pages' = [pages EXCEPT ![p] = ClosedPage]
    /\ UNCHANGED <<norm, statVars, blockVars, pomodoroState, tickAlarm, tickQueued, th, elapsed,
                   interrupted, overlaps>>

\* the timer with blocked pages open, over the first RaceTicks ticks of a session
NextPages ==
    \/ TimerIdle /\ TimerTrigger
    \/ /\ pomodoroState # EmptyMap
       /\ pomodoroState.timeRemaining > WORK_DURATION - RaceTicks
       /\ TickAlarmFires
    \/ initTimerStateGet
    \/ initTimerStateSet
    \/ CommandGet
    \/ resetTimerClear
    \/ \E k \in {"cmd", "tick"} : updateTimerStateGet(k)
    \/ \E k \in {"cmd", "tick"} : updateTimerStateSet(k)
    \/ CommandAlarm
    \/ CommandRespond
    \/ handleTimerTickGet
    \/ handleTimerTickClear
    \/ handleTimerTickDone
    \/ handleVolumeChangeGet
    \/ handleVolumeChangeSet
    \/ \E p \in Pages : openPage(p)
    \/ \E p \in Pages : initTimer(p)
    \/ \E p \in Pages : storageOnChanged(p)
    \/ \E p \in Pages : closePage(p)

\* ============================================================ domain text
\* a text of Inputs is in the popup's input field and in a grant message
InitNorm ==
    /\ InitBlocker
    /\ InitTimer
    /\ InitStats
    /\ norm \in {[NoText EXCEPT !.raw = t] : t \in Inputs}

\* popup, form submit: normalizeDomain(input.value), isValidDomain, addSite
popupSubmit ==
    /\ ~norm.submitted
    /\ LET domain == normalizeDomain(norm.raw)
       IN  norm' = [norm EXCEPT !.submitted = TRUE, !.domain = domain,
                                !.valid = isValidDomain(domain)]
    /\ UNCHANGED <<blockVars, timerVars, statVars>>

\* background: a message {action: "allowFiveMinutes", site: the same text}
grantSameText ==
    /\ ~norm.sent
    /\ norm' = [norm EXCEPT !.sent = TRUE,
                            !.grant = allowFiveMinutesDomain(norm.raw)]
    /\ UNCHANGED <<blockVars, timerVars, statVars>>

\* the blocked page of the entry just added (blocked.html?site=<entry>) sends
\* {action: "allowFiveMinutes", site: entry}; key is the temporaryAllows key
grantForEntry ==
    /\ norm.submitted
    /\ norm.valid
    /\ ~norm.clicked
    /\ norm' = [norm EXCEPT !.clicked = TRUE,
                            !.key = allowFiveMinutesDomain(norm.domain)]
    /\ UNCHANGED <<blockVars, timerVars, statVars>>

\* the calls of getDomainRuleId made for one domain while the store is down
MaxCalls == 2

\* getDomainRuleId(domain) with the text as domain: chrome.storage.local.get
\* rejects, the catch computes the id from the characters of domain
getDomainRuleIdFallback ==
    /\ Len(norm.ids) < MaxCalls
    /\ LET hash == hashLoop(norm.raw, <<0, 0>>)
       IN  norm' = [norm EXCEPT !.hash = hash,
                                !.ids = Append(norm.ids, fallbackId(hash))]
    /\ UNCHANGED <<blockVars, timerVars, statVars>>

NextNorm ==
    \/ popupSubmit
    \/ grantSameText
    \/ grantForEntry
    \/ getDomainRuleIdFallback

\* ======================================================== specifications
Spec == Init /\ [][Next]_vars

SpecAlloc == Init /\ [][NextAlloc]_vars

SpecWide == Init /\ [][NextWide]_vars

SpecFail == Init /\ [][NextFail]_vars

SpecGrant == Init /\ [][NextGrant]_vars

SpecTimer == Init /\ [][NextTimer]_vars

SpecTimerRace == Init /\ [][NextTimerRace]_vars

SpecPages == Init /\ [][NextPages]_vars

SpecStats == Init /\ [][NextStats]_vars

InitRace == InitBlockerRace /\ InitTimer /\ InitStats /\ norm = NoText

SpecRace == InitRace /\ [][NextRace]_vars

\* the blocker as addSite(1), addSite(2) and a grant for 2 at time 0 leave it:
\* both sites on the list, site 2 allowed until FIVE_MINUTES, site 1 blocked
InitBlockerBlocked ==
    /\ blockedSites = <<1, 2>>
    /\ temporaryAllows = (2 :> FIVE_MINUTES)
    /\ domainIdMap = (1 :> 1)
    /\ nextRuleId = 2
    /\ rules = {buildRule(1, 1)}
    /\ reblockAlarm = FIVE_MINUTES
    /\ now = 0
    /\ hs = [s \in Slots |-> IdleH]
    /\ returned = (1 :> 1)

InitBlocked == InitBlockerBlocked /\ InitTimer /\ InitStats /\ norm = NoText

\* the timer running beside a blocker that has sites blocked
SpecTimerBlocked == InitBlocked /\ [][NextTimer]_vars

\* overlapping handlers before the record is first stored
MaxEarly == 3

\* the blocked page's slider moves while the service worker's initTimerState
\* is in flight or has not yet stored the record: the two writers of
\* pomodoroState in every interleaving of their steps, a handler beginning
\* while another is in flight MaxEarly times at most
NextTimerEarly ==
    \/ /\ TimerIdle \/ overlaps < MaxEarly
       /\ \/ \E volume \in Volumes : handleVolumeChange(volume)
          \/ TimerStartup
    \/ initTimerStateGet
    \/ initTimerStateSet
    \/ handleVolumeChangeGet
    \/ handleVolumeChangeSet

SpecTimerEarly == Init /\ [][NextTimerEarly]_vars

SpecNorm == InitNorm /\ [][NextNorm]_vars

\* ------------------------------------------------------------------ claims
Synced(h) ==
    /\ h.resp # "invalid"
    /\ \/ h.pc \in {"respond", "done"}
       \/ h.kind = "alarm" /\ h.pc \in {"sched_get", "sched_set"}

InSync(h) == h.pc \in {"sync_ids", "sync_update"}

Injective(m) == \A x, y \in DOMAIN m : x # y => m[x] # m[y]

\* C1 (as claimed): once syncRules has run on the list getEffectiveBlockedSites
\* returned, the engine holds exactly one rule per domain of that list and no
\* two rules share an id.
C1_RulesEqualEffectiveSet ==
    \A s \in Slots :
        Synced(hs[s]) =>
            /\ {r.domain : r \in rules} = SeqRange(hs[s].effective)
            /\ Cardinality(rules) = Len(hs[s].effective)
            /\ Cardinality(RuleIds(rules)) = Cardinality(rules)

\* C2 (as claimed): of the getDomainRuleId calls in flight together, two
\* returned calls for different domains hold different ids, two for the same
\* domain hold the same id, and when all calls of a syncRules have returned
\* every one of their reservations is in the persisted domainIdMap.
C2_ConcurrentReservationsKept ==
    /\ \A s, t \in Slots :
          InSync(hs[s]) /\ InSync(hs[t]) =>
            \A i \in 1..Len(hs[s].calls), j \in 1..Len(hs[t].calls) :
                hs[s].calls[i].st = "done" /\ hs[t].calls[j].st = "done" =>
                    (hs[s].effective[i] = hs[t].effective[j])
                        <=> (hs[s].calls[i].id = hs[t].calls[j].id)
    /\ \A s \in Slots :
          hs[s].pc = "sync_update" =>
            \A i \in 1..Len(hs[s].calls) :
                /\ Has(domainIdMap, hs[s].effective[i])
                /\ domainIdMap[hs[s].effective[i]] = hs[s].calls[i].id

\* C3: in a sequence of getDomainRuleId calls made one after the other, a call
\* for a domain that an earlier call already returned an id for returns that
\* same id and writes neither domainIdMap nor nextRuleId.
C3_SecondCallSameIdNoWrite ==
    [][\A s \in Slots : \A i \in 1..Len(hs[s].calls) :
          (/\ hs[s].pc = "sync_ids"
           /\ hs[s].calls[i].st # "done"
           /\ hs'[s].pc \in {"sync_ids", "sync_update"}
           /\ hs'[s].calls[i].st = "done"
           /\ Has(returned, hs[s].effective[i]))
          => /\ hs'[s].calls[i].id = returned[hs[s].effective[i]]
             /\ ~hs'[s].calls[i].wrote
             /\ domainIdMap' = domainIdMap
             /\ nextRuleId' = nextRuleId]_vars

\* a call has returned the id it found in the map, written by an earlier call
C3_Witness ==
    \E s \in Slots : \E i \in 1..Len(hs[s].calls) :
        /\ InSync(hs[s])
        /\ hs[s].calls[i].st = "done"
        /\ ~hs[s].calls[i].wrote
        /\ Has(returned, hs[s].effective[i])

\* C4 (as claimed): the id getDomainRuleId returned for a domain is the id
\* every later call returns for it, and no two domains are ever returned the
\* same id.
C4_IdsStableAndUnshared ==
    [][/\ \A d \in DOMAIN returned : returned'[d] = returned[d]
       /\ Injective(returned')]_vars

\* C5: when getEffectiveBlockedSites has returned, its result is the stored
\* block list without the domains whose temporary-allow entry has an expiry
\* later than the function's now, in list order, and the persisted
\* temporaryAllows holds no entry with expiry <= that now.
C5_EffectiveSetAndPruned ==
    \A s \in Slots :
        hs[s].pc = "sync_get" =>
            /\ hs[s].effective =
                  SelectSeq(blockedSites,
                            LAMBDA d : ~(/\ d \in DOMAIN temporaryAllows
                                         /\ temporaryAllows[d] > hs[s].now0))
            /\ \A d \in DOMAIN temporaryAllows : temporaryAllows[d] > hs[s].now0

\* a call that pruned an expired entry and left out a still-allowed domain
C5_Witness ==
    \E s \in Slots :
        /\ hs[s].pc = "sync_get"
        /\ hs[s].changed
        /\ Len(hs[s].blk) = 2
        /\ Len(hs[s].effective) = 1

LiveOnly(ta, t) == Restrict(ta, {d \in DOMAIN ta : ta[d] > t})

\* C6: what scheduleReblockAlarm and getEffectiveBlockedSites compute from the
\* temporaryAllows map they read is what they compute from that map with
\* every entry of expiry <= now left out.
C6_ExpiredTreatedAsAbsent ==
    \A s \in Slots :
        /\ hs[s].pc = "sched_set" =>
             hs[s].soonest = Soonest(LiveOnly(hs[s].ta, hs[s].now0), hs[s].now0)
        /\ hs[s].pc = "sync_get" =>
             hs[s].effective =
                EffectiveFilter(hs[s].blk, LiveOnly(hs[s].ta, hs[s].now0), hs[s].now0)

\* scheduleReblockAlarm has read a map holding an expired, unpruned entry
C6_Witness ==
    \E s \in Slots :
        /\ hs[s].pc = "sched_set"
        /\ \E d \in DOMAIN hs[s].ta : hs[s].ta[d] <= hs[s].now0
        /\ hs[s].soonest # NoAlarm

\* the mode and remaining time after n ticks of an uninterrupted run
PhaseMode(n) == IF n < WORK_DURATION THEN "work" ELSE "break"

PhaseTime(n) ==
    IF n < WORK_DURATION THEN WORK_DURATION - n
    ELSE BREAK_DURATION - (n - WORK_DURATION)

\* C7: after start from idle and n ticks with no command in between, the
\* persisted state is work with workDuration - n left while n < workDuration,
\* break with breakDuration - (n - workDuration) left from n = workDuration
\* on, and work with workDuration left again at n = workDuration +
\* breakDuration, from where the cycle repeats (n is counted modulo the cycle).
C7_WorkBreakCycle ==
    (elapsed >= 0 /\ ~interrupted) =>
        /\ pomodoroState.mode = PhaseMode(elapsed)
        /\ pomodoroState.timeRemaining = PhaseTime(elapsed)

\* workDuration + 1 ticks after the start: one second into the break
C7_Witness ==
    /\ ~interrupted
    /\ elapsed = WORK_DURATION + 1
    /\ pomodoroState.mode = "break"
    /\ pomodoroState.timeRemaining = BREAK_DURATION - 1

\* C8: a completed pause turns work into work-paused and break into
\* break-paused, a completed start turns them back, both with timeRemaining
\* as it was; and whatever pauses and resumes happened, the remaining time
\* is that of the number of ticks applied since the start from idle.
C8_PauseResumeKeepsTime ==
    /\ th["cmd"].pc = "done" =>
          LET pre == th["cmd"].pre
              op == th["cmd"].op
              to == CASE op = "pause" /\ Mode(pre) = "work" -> "work-paused"
                      [] op = "pause" /\ Mode(pre) = "break" -> "break-paused"
                      [] op = "start" /\ Mode(pre) = "work-paused" -> "work"
                      [] op = "start" /\ Mode(pre) = "break-paused" -> "break"
                      [] OTHER -> "n/a"
          IN  to # "n/a" =>
                /\ pomodoroState.mode = to
                /\ pomodoroState.timeRemaining = pre.timeRemaining
    /\ elapsed >= 0 =>
          /\ pomodoroState.timeRemaining = PhaseTime(elapsed)
          /\ pomodoroState.mode \in
                {PhaseMode(elapsed), IF elapsed < WORK_DURATION
                                     THEN "work-paused" ELSE "break-paused"}

\* start, 10 ticks, pause, start: the resumed session has 1490 seconds left
C8_Witness ==
    /\ th["cmd"].pc = "done"
    /\ th["cmd"].op = "start"
    /\ Mode(th["cmd"].pre) = "work-paused"
    /\ elapsed = 10
    /\ pomodoroState.mode = "work"
    /\ pomodoroState.timeRemaining = WORK_DURATION - 10

\* C9: a completed start that found mode work or break, and a completed pause
\* that found mode idle, work-paused or break-paused, leave the persisted mode
\* and timeRemaining as they were.
C9_NoOpCommands ==
    th["cmd"].pc = "done" =>
        LET pre == th["cmd"].pre
            op == th["cmd"].op
        IN  (\/ op = "start" /\ Mode(pre) \in {"work", "break"}
             \/ op = "pause" /\ Mode(pre) \in {"idle", "work-paused", "break-paused"})
            => /\ pomodoroState.mode = pre.mode
               /\ pomodoroState.timeRemaining = pre.timeRemaining

\* a start issued during a break that has already run for a while
C9_Witness ==
    /\ th["cmd"].pc = "done"
    /\ th["cmd"].op = "start"
    /\ Mode(th["cmd"].pre) = "break"
    /\ th["cmd"].pre.timeRemaining < BREAK_DURATION

\* C10: a completed reset leaves mode idle, timeRemaining equal to the
\* record's workDuration, and no pomodoroTick alarm scheduled.
C10_ResetToIdle ==
    (th["cmd"].pc = "done" /\ th["cmd"].op = "reset") =>
        /\ pomodoroState.mode = "idle"
        /\ pomodoroState.timeRemaining = pomodoroState.workDuration
        /\ ~tickAlarm

\* a reset issued in a paused break that had already run for a while
C10_Witness ==
    /\ th["cmd"].pc = "done"
    /\ th["cmd"].op = "reset"
    /\ Mode(th["cmd"].pre) = "break-paused"
    /\ th["cmd"].pre.timeRemaining < BREAK_DURATION

\* C11: a tick handler that reads mode idle, work-paused or break-paused takes
\* the stale path; on that path no step of it writes pomodoroState, and when
\* it returns the pomodoroTick alarm is no longer scheduled.
C11_StaleTickCancelsOnly ==
    [][/\ (/\ th["tick"].pc = "get"
           /\ th'["tick"].pc # "get"
           /\ Mode(getTimerState) \in {"idle", "work-paused", "break-paused"})
          => /\ th'["tick"].pc = "clear"
             /\ pomodoroState' = pomodoroState
       /\ (th["tick"].pc = "clear" /\ th'["tick"].pc # "clear")
          => /\ pomodoroState' = pomodoroState
             /\ ~tickAlarm']_vars

\* a tick that raced with a pause: it has read work-paused while the alarm is
\* still scheduled
C11_Witness ==
    /\ th["tick"].pc = "clear"
    /\ Mode(th["tick"].state) = "work-paused"
    /\ tickAlarm

\* C12 (as claimed): the write of a tick handler never changes the mode or
\* the remaining time of a reset timer: if the persisted state is idle with
\* timeRemaining = workDuration and no start has been applied since the reset,
\* it is so after the tick handler's write too.
C12_StaleTickKeepsReset ==
    [][(/\ th["tick"].pc = "upd_set"
        /\ th'["tick"].pc = "done"
        /\ elapsed = -1
        /\ Mode(pomodoroState) = "idle"
        /\ pomodoroState.timeRemaining = pomodoroState.workDuration)
       => /\ pomodoroState'.mode = "idle"
          /\ pomodoroState'.timeRemaining = pomodoroState'.workDuration]_vars

Paused(state) == Mode(state) \in {"work-paused", "break-paused"}

\* C13 (as claimed): during a session (a start from idle applied, no reset
\* since), whatever handlers overlap: the write of a tick handler onto a stored
\* mode work or break lowers the stored timeRemaining by exactly one (or ends
\* the phase at 1); the writes of start on a non-idle state, of pause and of
\* the volume change leave timeRemaining as stored; and no write changes
\* timeRemaining while the stored mode is and stays paused.
C13_NoLostOrDoubleCountedTime ==
    [][elapsed >= 0 =>
         LET tr == pomodoroState.timeRemaining
             tr2 == pomodoroState'.timeRemaining
         IN  /\ (/\ th["tick"].pc = "upd_set"
                 /\ th'["tick"].pc = "done"
                 /\ Running(pomodoroState))
                => IF tr > 1 THEN tr2 = tr - 1
                   ELSE Mode(pomodoroState') # Mode(pomodoroState)
             /\ (th["vol"].pc = "set" /\ th'["vol"].pc = "idle") => tr2 = tr
             /\ (/\ th["cmd"].pc = "upd_set"
                 /\ th'["cmd"].pc = "alarm"
                 /\ Mode(th["cmd"].state) # "idle")
                => tr2 = tr
             /\ (Paused(pomodoroState) /\ Paused(pomodoroState')) => tr2 = tr]_vars

\* the grant handler of slot s has just completed its scheduleReblockAlarm,
\* for a domain that already had an entry, before the new expiry
SecondGrantScheduled(s) ==
    /\ hs[s].kind = "grant"
    /\ hs[s].pc = "eff_get"
    /\ hs[s].prev # NoAlarm
    /\ hs[s].expiry > hs[s].now0

\* C14 (as claimed): after a second grant for a domain the map holds the new
\* expiry for it and the one reblock alarm is scheduled at that new expiry.
C14_SecondGrantAlarmAtNewExpiry ==
    \A s \in Slots :
        SecondGrantScheduled(s) =>
            /\ temporaryAllows[hs[s].dom] = hs[s].expiry
            /\ reblockAlarm = hs[s].expiry

\* C14 (amended): after a second grant for a domain the map holds the new
\* expiry for it and the one reblock alarm is scheduled at the earliest
\* unexpired expiry in the map: at the new expiry when no other domain's
\* allowance ends sooner, at that other domain's expiry otherwise.
C14_SecondGrantAlarmAtEarliest ==
    \A s \in Slots :
        SecondGrantScheduled(s) =>
            LET others == {temporaryAllows[e] :
                             e \in {x \in DOMAIN temporaryAllows :
                                      /\ x # hs[s].dom
                                      /\ temporaryAllows[x] > hs[s].now0}}
            IN  /\ temporaryAllows[hs[s].dom] = hs[s].expiry
                /\ reblockAlarm \in others \cup {hs[s].expiry}
                /\ reblockAlarm <= hs[s].expiry
                /\ \A t \in others : reblockAlarm <= t

\* a grant renewed while the first allowance was still running: the alarm has
\* moved from the old expiry to the new one
C14_Witness ==
    \E s \in Slots :
        /\ SecondGrantScheduled(s)
        /\ hs[s].prev > hs[s].now0
        /\ hs[s].prev < hs[s].expiry
        /\ reblockAlarm = hs[s].expiry

\* scheduleReblockAlarm has just completed in the handler of slot s
ScheduleDone(s) ==
    \/ hs[s].kind = "grant" /\ hs[s].pc = "eff_get"
    \/ hs[s].kind = "alarm" /\ hs[s].pc = "done"

\* C15: when scheduleReblockAlarm has completed, the reblock alarm is pending
\* if and only if the persisted temporaryAllows has an entry with expiry later
\* than the function's now, and then it is set to the least such expiry (the
\* alarm named reblock is the only one there is).
C15_AlarmIffLiveEntry ==
    \A s \in Slots :
        ScheduleDone(s) =>
            LET live == {d \in DOMAIN temporaryAllows :
                           temporaryAllows[d] > hs[s].now0}
            IN  /\ (reblockAlarm # NoAlarm) <=> (live # {})
                /\ live # {} =>
                      /\ \E d \in live : reblockAlarm = temporaryAllows[d]
                      /\ \A d \in live : reblockAlarm <= temporaryAllows[d]

\* the reblock handler has rescheduled the alarm for the later of two
\* allowances after the earlier one ran out
C15_Witness ==
    \E s \in Slots :
        /\ hs[s].kind = "alarm"
        /\ hs[s].pc = "done"
        /\ reblockAlarm # NoAlarm
        /\ reblockAlarm > hs[s].now0

\* C16 (as claimed): when the handler of the reblock alarm has finished its
\* work, every block-list domain whose allowance has run out (its entry is
\* pruned from temporaryAllows) or that never had one has a rule in the
\* engine again, and the alarm is set again if an allowance is still running.
C16_ExpiredAllowanceReblocked ==
    \A s \in Slots :
        (hs[s].kind = "alarm" /\ hs[s].pc = "done") =>
            /\ \A d \in SeqRange(blockedSites) :
                  ~Has(temporaryAllows, d) => \E r \in rules : r.domain = d
            /\ (\E d \in DOMAIN temporaryAllows :
                    temporaryAllows[d] > hs[s].now0) => reblockAlarm # NoAlarm

\* C17 (as claimed): when the grant handler for a block-list domain has
\* answered ok, having recomputed the effective set before the new expiry,
\* temporaryAllows holds grant time + FIVE_MINUTES for the domain, the engine
\* holds no rule for it, and it holds a rule for every domain of the
\* effective set.
C17_GrantOkUnblocksOnlyIt ==
    \A s \in Slots :
        (/\ hs[s].kind = "grant"
         /\ hs[s].pc = "done"
         /\ hs[s].resp \in {"ok", "ok_navigated"}
         /\ Includes(blockedSites, hs[s].dom)
         /\ hs[s].expiry > hs[s].now0)
        => /\ Has(temporaryAllows, hs[s].dom)
           /\ temporaryAllows[hs[s].dom] = hs[s].expiry
           /\ ~\E r \in rules : r.domain = hs[s].dom
           /\ \A e \in SeqRange(hs[s].effective) : \E r \in rules : r.domain = e

\* C18: the step in which a grant request is answered "invalid domain", and
\* every step until its handler has returned, leaves temporaryAllows, the
\* pending reblock alarm, domainIdMap and the engine's rules as they were.
C18_InvalidGrantMutatesNothing ==
    [][\A s \in Slots :
          (hs[s].resp = "invalid" \/ hs'[s].resp = "invalid")
          => /\ hs'[s].resp = "invalid" => hs'[s].pc = "done"
             /\ temporaryAllows' = temporaryAllows
             /\ reblockAlarm' = reblockAlarm
             /\ domainIdMap' = domainIdMap
             /\ rules' = rules]_vars

\* an invalid request answered while an allowance is running, its alarm is
\* pending and the engine holds a rule
C18_Witness ==
    \E s \in Slots :
        /\ hs[s].resp = "invalid"
        /\ temporaryAllows # EmptyMap
        /\ reblockAlarm # NoAlarm
        /\ domainIdMap # EmptyMap
        /\ rules # {}

\* the grant handler and the popup compute the same domain from the text
SameNormalization == (norm.submitted /\ norm.sent) => norm.grant = norm.domain

\* C19 (as claimed): for every text, the grant handler computes from it the
\* domain the popup's normalizeDomain computes from it; and the grant sent by
\* the blocked page of a block-list entry is stored under that entry.
C19_GrantKeysBlockListEntry ==
    /\ SameNormalization
    /\ norm.clicked => norm.key = norm.domain

\* C20: inside syncRules, the step in which reading the current rules fails
\* or the engine rejects the update leaves the engine's rules as they are,
\* and so does every step of syncRules before its update: when syncRules
\* returns after a failure the rules are those it was called with.
C20_FailedSyncKeepsRules ==
    [][\A s \in Slots :
          /\ (hs[s].err = "none" /\ hs'[s].err # "none") => rules' = rules
          /\ hs[s].pc \in {"sync_get", "sync_ids"} => rules' = rules]_vars

\* an update rejected while the engine holds a rule the request would have
\* removed
C20_Witness ==
    \E s \in Slots :
        /\ hs[s].err = "update"
        /\ rules # {}
        /\ \E r \in rules : r.domain \notin SeqRange(hs[s].effective)

\* the rules of the engine are one rule per domain of the list, ids distinct
RulesFor(effective) ==
    /\ {r.domain : r \in rules} = SeqRange(effective)
    /\ Cardinality(rules) = Len(effective)
    /\ Cardinality(RuleIds(rules)) = Cardinality(rules)

\* C21 (as claimed): whatever an earlier reconciliation left in the engine (it
\* may have failed on the engine, or not have run), when a triggering event
\* has been handled with no failure of the engine in it, the engine's rules
\* are the rules for the effective block set its handler computed.
C21_NextReconciliationRepairs ==
    \A s \in Slots :
        (Synced(hs[s]) /\ hs[s].err \notin {"read", "update"})
        => RulesFor(hs[s].effective)

\* C22: every id getDomainRuleId returns from its fallback lies in 1..2^30,
\* and the calls made for one domain string all return the same id.
C22_FallbackIdInRangeAndStable ==
    \A i \in 1..Len(norm.ids) :
        /\ norm.ids[i] >= 1
        /\ norm.ids[i] <= TwoTo30
        /\ norm.ids[i] = norm.ids[1]

\* two calls for a text whose hash has wrapped to a negative 32-bit value
C22_Witness ==
    /\ Len(norm.ids) = 2
    /\ Negative(norm.hash)
    /\ Len(norm.raw) >= 7

\* initTimerState returns in this step
initTimerStateReturns ==
    /\ th["init"].pc # "idle"
    /\ th'["init"].pc = "idle"

\* C23 (as claimed): whenever initTimerState has run, at the first start and at
\* every later start of the service worker, the stored state is idle with
\* timeRemaining = WORK_DURATION.
C23_RestartResetsTimer ==
    [][initTimerStateReturns =>
           /\ Mode(pomodoroState') = "idle"
           /\ pomodoroState'.timeRemaining = WORK_DURATION]_vars

\* a step of the timer: a handler of it moves, or its state or alarm changes
TimerStep ==
    \/ th' # th
    \/ pomodoroState' # pomodoroState
    \/ tickAlarm' # tickAlarm
    \/ tickQueued' # tickQueued

\* C24: no step of a timer operation (start, pause, reset, tick, transition)
\* changes the block list, temporaryAllows, domainIdMap or the engine's rules.
C24_TimerLeavesBlockingAlone ==
    [][TimerStep => UNCHANGED <<blockedSites, temporaryAllows, domainIdMap, rules>>]_vars

\* a break has begun and the blocked site still has its rule
C24_Witness ==
    /\ Mode(pomodoroState) = "break"
    /\ Includes(blockedSites, 1)
    /\ buildRule(1, 1) \in rules

\* a step of the core: a handler in flight moves, or a handler begins that the
\* popup's write did not trigger (start-up, install, reblock wake-up, grant)
CoreStep ==
    \E s \in Slots :
        \/ hs[s].pc # "idle" /\ hs'[s] # hs[s]
        \/ hs[s].pc = "idle" /\ hs'[s].kind \in {"startup", "installed", "alarm", "grant"}

\* C25: no step of the core (effective-set calculation, id allocation, rule
\* reconciliation, grant, reblock wake-up) changes blockedSites.
C25_CoreNeverWritesBlockList ==
    [][CoreStep => blockedSites' = blockedSites]_vars

\* a grant has been stored and reconciled while a site is on the list
C25_Witness ==
    /\ blockedSites # << >>
    /\ \E s \in Slots : hs[s].kind = "grant" /\ hs[s].pc = "done" /\ hs[s].resp # "invalid"
    /\ temporaryAllows # EmptyMap
    /\ rules # {}

\* the page has drawn what initTimer read and every event sent to it
Settled(p) ==
    /\ pages[p].open
    /\ pages[p].queue = << >>

\* C26: an open page shows the mode and time of the last value it was handed,
\* and once every event is delivered it shows those of the stored pomodoroState,
\* so all such pages show the same.
C26_PagesShowPersistedState ==
    \A p \in Pages :
        /\ (pages[p].open /\ pages[p].shown # NoDisplay)
               => pages[p].shown = updateTimerDisplay(pages[p].last)
        /\ Settled(p) => pages[p].shown = updateTimerDisplay(pomodoroState)

\* two pages, both notified of a tick of a running work session
C26_Witness ==
    /\ \A p \in Pages : Settled(p) /\ pages[p].notified
    /\ Mode(pomodoroState) = "work"
    /\ pomodoroState.timeRemaining < WORK_DURATION
    /\ \A p \in Pages : pages[p].shown.time = formatTime(pomodoroState.timeRemaining)

\* every handler that was begun has run to its end
AllFinished == \A s \in SlotsRace : hs[s].pc \in {"idle", "done"}

\* the grant of slot s was stored and answered
Granted(s) ==
    /\ hs[s].kind = "grant"
    /\ hs[s].pc = "done"
    /\ hs[s].resp # "invalid"

\* C27 (as claimed): once all handlers have finished, the entry of every grant
\* that was stored and has not expired is in the persisted temporaryAllows.
C27_NoGrantLost ==
    \A s \in SlotsRace :
        (AllFinished /\ Granted(s) /\ hs[s].expiry > now)
            => Has(temporaryAllows, hs[s].dom)

\* the page has had the answer to a grant whose entry was stored
Answered(s) ==
    /\ hs[s].kind = "grant"
    /\ hs[s].pc = "done"
    /\ hs[s].called
    /\ hs[s].expiry # NoAlarm

AllLive == \A d \in DOMAIN temporaryAllows : temporaryAllows[d] > now

\* C29 (as claimed): once all handlers have finished, in whatever order their
\* steps were taken, the engine holds one rule per domain of the current
\* effective block set.
C29_InterleavedSyncsConverge ==
    (AllFinished /\ AllLive)
        => RulesFor(EffectiveFilter(blockedSites, temporaryAllows, now))

\* getEffectiveBlockedSites of slot s returns in this step
EffectiveReturns(s) ==
    /\ hs[s].pc \in {"eff_get", "eff_set"}
    /\ hs'[s].pc = "sync_get"

\* C30: getEffectiveBlockedSites changes temporaryAllows only when an entry of
\* it has expired, and then removes exactly entries with expiry <= now, leaving
\* the others as they were; a second call at the instant of the first would
\* write nothing and return the same set.
C30_PruneOnlyExpiredIdempotent ==
    [][\A s \in Slots :
          /\ (hs[s].pc \in {"eff_get", "eff_set"} /\ temporaryAllows' # temporaryAllows)
                 => /\ \E d \in DOMAIN temporaryAllows : temporaryAllows[d] <= now
                    /\ DOMAIN temporaryAllows' \subseteq DOMAIN temporaryAllows
                    /\ \A d \in DOMAIN temporaryAllows' :
                           temporaryAllows'[d] = temporaryAllows[d]
                    /\ \A d \in DOMAIN temporaryAllows \ DOMAIN temporaryAllows' :
                           temporaryAllows[d] <= now
          /\ (EffectiveReturns(s) /\ hs'[s].now0 = now')
                 => /\ Pruned(temporaryAllows', now') = temporaryAllows'
                    /\ EffectiveFilter(blockedSites', temporaryAllows', now')
                           = hs'[s].effective]_vars

\* a call has removed an expired entry and kept a live one
C30_Witness ==
    \E s \in Slots :
        /\ hs[s].pc = "sync_get"
        /\ hs[s].changed
        /\ temporaryAllows # EmptyMap
        /\ DOMAIN temporaryAllows # DOMAIN hs[s].ta
        /\ AllLive

\* the engine holds a rule for domain d
Blocked(d) == \E r \in rules : r.domain = d

\* the handler of a block-list change has run and its update was applied
ChangeReconciled(s) ==
    /\ hs[s].kind = "change"
    /\ hs[s].pc = "done"
    /\ hs[s].err = "none"

\* C31: after a block-list change has been reconciled, the engine holds no rule
\* for a domain whose temporary allowance has not expired.
C31_ChangeKeepsAllowance ==
    \A s \in Slots :
        ChangeReconciled(s) =>
            \A d \in DOMAIN temporaryAllows :
                temporaryAllows[d] > now => ~Blocked(d)

\* another site was added while a listed site was allowed: it got a rule, the
\* allowed site did not
C31_Witness ==
    \E s \in Slots :
        /\ ChangeReconciled(s)
        /\ \E d \in DOMAIN temporaryAllows :
               /\ temporaryAllows[d] > now
               /\ Includes(blockedSites, d)
               /\ ~Blocked(d)
        /\ rules # {}

\* the grant of slot s navigates the sender's tab in this step
GrantNavigates(s) ==
    /\ hs[s].kind = "grant"
    /\ hs[s].pc = "respond"
    /\ hs[s].tab
    /\ hs'[s].navs = hs[s].navs + 1

\* C32 (as claimed): when the grant handler navigates the tab, the allowance
\* not having expired meanwhile, the engine holds no rule for the granted domain.
C32_NavigationAfterUnblock ==
    [][\A s \in Slots :
          (GrantNavigates(s) /\ hs[s].expiry > now) => ~Blocked(hs[s].dom)]_vars

\* C33 (as claimed): once every recordBlockStats call has finished, the count
\* stored for each domain and today is the number of block events for it.
C33_EveryBlockEventCounted ==
    (\A p \in Pages : recorders[p].pc = "idle")
        => \A d \in Domains : Count(blockStats, d, Today) = events[d]

\* no domain occurs twice in the list
NoDuplicate(sites) ==
    \A i, j \in 1..Len(sites) : sites[i] = sites[j] => i = j

\* C34: the stored block list never holds a domain twice; addSite for a domain
\* of the list leaves the list as it is; removeSite(d) leaves a list without d
\* that keeps every other entry, in its order.
C34_BlockListIsASet ==
    /\ NoDuplicate(blockedSites)
    /\ \A d \in DomainsWide :
           /\ Includes(blockedSites, d) => addSiteList(blockedSites, d) = blockedSites
           /\ NoDuplicate(addSiteList(blockedSites, d))
           /\ ~Includes(removeSiteList(blockedSites, d), d)
           /\ \A e \in DomainsWide \ {d} :
                  Includes(removeSiteList(blockedSites, d), e) <=> Includes(blockedSites, e)
           /\ NoDuplicate(removeSiteList(blockedSites, d))

\* sites were added and one of them, which had got its id, was removed again
C34_Witness ==
    /\ blockedSites # << >>
    /\ \E d \in DOMAIN domainIdMap : ~Includes(blockedSites, d)
    /\ AllIdle

\* no volume change has been stored: the record is the work of initTimerState
\* and of the start, pause, reset and tick handlers alone
NoVolumeChange == pomodoroState # EmptyMap /\ pomodoroState.musicVolume = 50

\* C35 (as claimed): whenever no timer handler is in flight and the stored mode
\* is work or break, the recurring pomodoroTick alarm is scheduled (volume
\* changes left aside).
C35_RunningTimerHasAlarm ==
    (TimerIdle /\ NoVolumeChange /\ Running(pomodoroState)) => tickAlarm

\* the mode changes listed for the operation op, from a record with mode m
Edge(m, n, op, state) ==
    CASE op = "start" -> <<m, n>> \in {<<"idle", "work">>, <<"work-paused", "work">>,
                                       <<"break-paused", "break">>}
      [] op = "pause" -> <<m, n>> \in {<<"work", "work-paused">>,
                                       <<"break", "break-paused">>}
      [] op = "reset" -> n = "idle"
      [] op = "tick" -> /\ <<m, n>> \in {<<"work", "break">>, <<"break", "work">>}
                        /\ state.timeRemaining - 1 <= 0
      [] OTHER -> FALSE

\* C36: every step that changes the stored mode is the write of a start, pause,
\* reset or tick handler and goes along an edge listed for that operation.
C36_ModeChangesAlongEdges ==
    [][(pomodoroState # EmptyMap /\ Mode(pomodoroState') # Mode(pomodoroState))
          => \E k \in {"cmd", "tick"} :
                 /\ th[k].pc = "upd_set"
                 /\ th'[k].pc # "upd_set"
                 /\ Edge(Mode(pomodoroState), Mode(pomodoroState'), th[k].op,
                         pomodoroState)]_vars

\* a break reached by the tick at zero has been paused
C36_Witness ==
    /\ Mode(pomodoroState) = "break-paused"
    /\ TimerIdle

\* C37: with the handlers running one after the other, every stored record has
\* timeRemaining >= 1, at most workDuration in work and work-paused, at most
\* breakDuration in break and break-paused, and equal to workDuration in idle.
C37_TimeRemainingInRange ==
    pomodoroState # EmptyMap =>
        /\ pomodoroState.timeRemaining >= 1
        /\ Mode(pomodoroState) \in {"work", "work-paused"}
               => pomodoroState.timeRemaining <= pomodoroState.workDuration
        /\ Mode(pomodoroState) \in {"break", "break-paused"}
               => pomodoroState.timeRemaining <= pomodoroState.breakDuration
        /\ Mode(pomodoroState) = "idle"
               => pomodoroState.timeRemaining = pomodoroState.workDuration

\* the last second of a break is stored
C37_Witness ==
    /\ Mode(pomodoroState) = "break"
    /\ pomodoroState.timeRemaining = 1
    /\ TimerIdle

\* the record holds a mode of the timer and the three numbers
Complete(state) ==
    /\ Mode(state) \in {"idle", "work", "break", "work-paused", "break-paused"}
    /\ \A k \in {"timeRemaining", "workDuration", "breakDuration"} :
           Has(state, k) /\ state[k] \in Int

\* C38: every stored record is complete, whichever writers have run, a volume
\* change before the first initTimerState included.
C38_PersistedRecordComplete == pomodoroState # EmptyMap => Complete(pomodoroState)

\* the step of handler s in which its updateDynamicRules call is accepted
Reconciles(s) ==
    /\ hs[s].pc = "sync_update"
    /\ hs'[s].pc # "sync_update"
    /\ hs'[s].err = "none"

\* C39: after a reconciliation whose update the engine accepted, every rule of
\* the engine is for a domain of the block list that reconciliation read.
C39_RulesWithinBlockList ==
    [][\A s \in Slots :
           Reconciles(s) => \A r \in rules' : Includes(hs[s].blk, r.domain)]_vars

\* the reblock alarm reconciled after the allowance of a domain that is no
\* longer in the block list had expired, and that domain has no rule
C39_Witness ==
    \E s \in Slots :
        /\ hs[s].kind = "alarm"
        /\ hs[s].pc = "sched_get"
        /\ hs[s].err = "none"
        /\ rules # {}
        /\ \E d \in DOMAIN hs[s].ta :
               /\ ~Has(hs[s].pruned, d)
               /\ ~Includes(hs[s].blk, d)
               /\ ~Blocked(d)

\* the step is the storage write of an allocating getDomainRuleId call
Allocates ==
    \E s \in Slots : \E i \in 1..Len(hs[s].calls) :
        /\ hs[s].pc = "sync_ids"
        /\ hs[s].calls[i].st = "set"
        /\ hs'[s].calls[i].st = "done"

\* C40: with the getDomainRuleId calls made one after the other, nextRuleId
\* never decreases and is raised by exactly one by every allocation, and after
\* every step it is greater than every id of domainIdMap, which maps distinct
\* domains to distinct ids.
C40_AllocatorInvariant ==
    [][/\ nextRuleId' >= nextRuleId
       /\ Allocates => nextRuleId' = nextRuleId + 1
       /\ \A d \in DOMAIN domainIdMap' : domainIdMap'[d] < nextRuleId'
       /\ Injective(domainIdMap')]_vars

\* both domains have been allocated an id
C40_Witness ==
    /\ DOMAIN domainIdMap = Domains
    /\ nextRuleId = NumDomains + 1
    /\ AllIdle

====
